---- MODULE Spec2Model ----
(***************************************************************************)
(* A model of the nydus image builder core: Merger::merge                   *)
(* (src/bin/nydus-image/merge.rs) and the BlobManager it drives             *)
(* (src/bin/nydus-image/core/context.rs).                                   *)
(***************************************************************************)
EXTENDS Integers, Sequences, FiniteSets, TLC

\* ------------------------------------------------------------------ bounds
\* Largest number of per-layer bootstraps handed to Merger::merge.
MaxLayers == 2
\* Largest number of blobs in a small blob table / chunk dictionary drawn as input.
MaxTable == 2
\* Largest number of operations called on one BlobManager.
MaxCalls == 3

\* ------------------------------------------------------- program constants
\* u8::try_from(self.blobs.len()): the blob index domain holds 256 values.
MaxBlobs == 256
\* u16::try_from(layer_idx): the largest layer index a node can carry.
U16Max == 65535

\* ---------------------------------------------------------------- options
\* Option<T>: None and Some(v) as records of one shape.
None == [some |-> FALSE, val |-> 0]
Some(v) == [some |-> TRUE, val |-> v]

\* Option<String> / Option<[u8; 32]>
NoneStr == [some |-> FALSE, val |-> ""]

\* A u64 as its two 32-bit halves: the value is hi * 2^32 + lo.
U64(hi, lo) == [hi |-> hi, lo |-> lo]
\* `v as u32`: the low 32 bits of a u64.
AsU32(v) == v.lo

Range(s) == {s[i] : i \in 1..Len(s)}

\* ------------------------------------------------------ merge input values
\* The two RAFS meta flavours a bootstrap can carry (its version; the other
\* attributes of the meta are the same in both).
Metas == {5, 6}

\* Blob ids of the chunk dictionary image.
SmallDictIds == {"d1", "d2"}
\* A dictionary that fills a RAFS v6 blob table but for one entry.
BulkIds == {"b" \o ToString(i) : i \in 1..(MaxBlobs - 1)}
BulkSeq == [i \in 1..(MaxBlobs - 1) |-> "b" \o ToString(i)]

\* BlobInfo entries of per-layer bootstraps: id, chunk size, SEPARATE feature,
\* compressed size, meta_ci_is_valid().
BlobInfoOf(id, cs, sep) ==
    [id |-> id, chunk_size |-> cs, separate |-> sep, compressed_size |-> U64(0, 16),
     meta_ci_valid |-> TRUE]

DictInfo(id) == BlobInfoOf(id, 1048576, FALSE)

\* The blobs a small per-layer blob table is drawn from: a dictionary blob,
\* two layer blobs (one with a separate meta blob) and a blob of another chunk size.
SmallBlobInfos ==
    { DictInfo("d1"),
      BlobInfoOf("x", 1048576, FALSE),
      BlobInfoOf("y", 1048576, TRUE),
      BlobInfoOf("z", 524288, FALSE) }

\* Sequences without repetition over S of length at most n.
RECURSIVE SeqsUpTo(_, _)
SeqsUpTo(S, n) ==
    IF n = 0 THEN {<<>>}
    ELSE LET shorter == SeqsUpTo(S, n - 1)
         IN  shorter \cup
             { Append(s, e) : <<s, e>> \in
                 { p \in shorter \X S : Len(p[1]) = n - 1 /\ p[2] \notin Range(p[1]) } }

SmallTables == SeqsUpTo(SmallBlobInfos, MaxTable)

\* A blob table that lists every blob of the bulk dictionary and then the
\* layer's own blob.
BulkTables ==
    { [i \in 1..MaxBlobs |->
         IF i < MaxBlobs THEN DictInfo(BulkSeq[i]) ELSE own] :
      own \in {BlobInfoOf("x", 1048576, FALSE)} }

\* Inodes met by walk_directory, in walk order. A file's chunks point into the
\* blob table of its own layer (first and last entry); `wh` marks an OCI
\* whiteout of `path`.
ChunksFor(n) == IF n = 0 THEN <<>> ELSE IF n = 1 THEN <<0>> ELSE <<0, n - 1>>
FileInode(p, n) == [path |-> p, wh |-> FALSE, chunks |-> ChunksFor(n)]
WhInode(p) == [path |-> p, wh |-> TRUE, chunks |-> <<>>]
Walks(n) ==
    { <<FileInode("a", n), WhInode("b"), FileInode("b", n), WhInode("c")>> }

\* Strings handed over as digest overrides: the upper-case hex of the
\* dictionary blob "d1", the hex of some other digest, and a string that is
\* no hex digest.
DigestArgs == {"D1", "e1", "zz"}
\* Sizes handed over as size overrides: one that does not fit in 32 bits.
SizeArgs == {U64(1, 5)}

\* <[u8; 32]>::from_hex: the decoded bytes (written as their lower-case hex),
\* or failure.
FromHex(s) ==
    CASE s = "D1" -> [ok |-> TRUE, bytes |-> "d1"]
      [] s = "e1" -> [ok |-> TRUE, bytes |-> "e1"]
      [] OTHER    -> [ok |-> FALSE, bytes |-> ""]
\* hex::encode: lower-case hex of the bytes.
HexEncode(bytes) == bytes

\* The per-layer bootstrap files: sources[i] is the file of layer i - 1.
SourcePath(i) == [dir |-> "/layers", name |-> "p" \o ToString(i)]
\* BlobInfo::get_blob_id_from_meta_path: the blob id is the file name of the
\* bootstrap.
GetBlobIdFromMetaPath(path) == path.name

\* Option<Vec<_>> override arguments: the array's length (its entries are read
\* once each, when their layer is met).
OptLens == {None} \cup {Some(k) : k \in 0..MaxLayers}
\* The override arrays handed to one merge: none, the blob digests alone, or
\* all four.
OverrideArgs ==
    { o \in [digests : OptLens, sizes : OptLens, toc_digests : OptLens, toc_sizes : OptLens] :
        \/ ~o.sizes.some /\ ~o.toc_digests.some /\ ~o.toc_sizes.some
        \/ o.digests.some /\ o.sizes.some /\ o.toc_digests.some /\ o.toc_sizes.some }

\* ---------------------------------------------------------------- state
VARIABLES
    pc,                 \* position in Merger::merge
    err,                \* the error merge returned ("" while none)
    sources,            \* Vec<PathBuf>
    blob_digests, blob_sizes, blob_toc_digests, blob_toc_sizes,
    blob_accessible,    \* ctx.configuration.internal.blob_accessible()
    chunk_dict_blobs,   \* HashSet of the chunk dict's blob ids
    config,             \* Option<RafsSuperConfig>
    fs_version, chunk_size, tree,
    blobs,              \* BlobManager::blobs
    layer_idx,          \* the layer being processed
    rs,                 \* the loaded bootstrap of that layer
    blob_idx_map, parent_blob_added,
    blob_k,             \* number of blobs of rs the blob loop has been through
    nodes,
    ctx,                \* BuildContext: fs_version, chunk_size
    target,             \* ArtifactStorage of the output ("unread" until merge reads it)
    target_file,        \* the file at the SingleFile path / at dir/name
    tmp_file,           \* the temp file of a FileDir writer
    blob_table,         \* the blob table handed to Bootstrap::dump
    current_blob_index, \* BlobManager::current_blob_index
    dict_blobs,         \* blob ids of global_chunk_dict.get_blobs(), by internal index
    real_blob_idx,      \* the dictionary's map from internal to real blob index
    parent_table,       \* the blob table last handed to extend_from_blob_table
    mgr_trace,          \* the BlobManager operations called so far, each with its
                        \* error ("" for Ok)
    mgr_ret,            \* what get_or_create_current_blob and to_blob_table
                        \* returned last
    bc,                 \* a BlobContext on its own
    bc0,                \* that BlobContext as it was constructed
    bc_trace,           \* the BlobContext methods called so far, with their
                        \* arguments and results
    aw,                 \* an ArtifactWriter and the files of its storage
    bootstrap_ctx,      \* a BootstrapContext: v6_available_blocks
    reader,             \* a BlobReader inside read()
    pure,               \* a function of context.rs or backend/mod.rs, its
                        \* argument and its result
    finalizing          \* two ArtifactWriters on one directory inside finalize,
                        \* and the entries of that directory

mergeVars ==
    << pc, err, sources, blob_digests, blob_sizes, blob_toc_digests, blob_toc_sizes,
       blob_accessible, chunk_dict_blobs, config, fs_version, chunk_size, tree,
       layer_idx, rs, blob_idx_map, parent_blob_added, blob_k, nodes, ctx, target,
       target_file, tmp_file, blob_table >>

mgrVars ==
    << current_blob_index, dict_blobs, real_blob_idx, parent_table, mgr_trace, mgr_ret >>

blobVars == << bc, bc0, bc_trace >>

auxVars == << aw, bootstrap_ctx, reader, pure, finalizing >>

\* The variables of the merge, the BlobManager and the BlobContext.
coreVars == << mergeVars, blobs, mgrVars, blobVars >>

vars == << coreVars, auxVars >>

\* Nothing returned yet: no (index, blob) pair, no blob table.
NoRet == [idx |-> None, blob |-> <<>>, table |-> <<>>]

\* No writer, bootstrap context, reader or function is looked at.
AwIdle == aw = <<>>
BootIdle == bootstrap_ctx = <<>>
ReaderIdle == reader = <<>>
PureIdle == pure = <<>>
FinalizingIdle == finalizing = <<>>
AuxIdle == AwIdle /\ BootIdle /\ ReaderIdle /\ PureIdle /\ FinalizingIdle

\* No BlobContext is looked at on its own.
BlobIdle ==
    /\ bc = <<>>
    /\ bc0 = <<>>
    /\ bc_trace = <<>>

NoRs == [meta |-> 0, blobs |-> <<>>, inodes |-> <<>>]
NoTree == [some |-> FALSE, nodes |-> <<>>]

\* ------------------------------------------------------------ BlobContext
\* BlobContext::from(ctx, blob, chunk_source)
BlobContextFrom(blob, chunk_source) ==
    [ blob_id |-> blob.id,
      chunk_size |-> blob.chunk_size,
      chunk_source |-> chunk_source,
      blob_meta_info_enabled |-> blob.meta_ci_valid,
      compressed_blob_size |-> blob.compressed_size,
      blob_meta_digest |-> "00",
      blob_meta_size |-> U64(0, 0),
      blob_toc_digest |-> "00",
      blob_toc_size |-> 0 ]

\* -------------------------------------------------------------- BlobManager
\* A push at the front of the vector.
AddFront(bs, blob_ctx) == <<blob_ctx>> \o bs

\* BlobManager::add
Add(bs, blob_ctx) == Append(bs, blob_ctx)

\* BlobManager::alloc_index: the next index, or failure beyond the u8 domain.
AllocIndex(bs) ==
    IF Len(bs) < MaxBlobs THEN [ok |-> TRUE, idx |-> Len(bs)]
    ELSE [ok |-> FALSE, idx |-> 0]

\* new_blob_ctx enabling meta info whatever the version.
NewBlobCtxMetaOn(c, id) ==
    [ blob_id |-> id,
      chunk_size |-> c.chunk_size,
      chunk_source |-> "Build",
      blob_meta_info_enabled |-> TRUE,
      compressed_blob_size |-> U64(0, 0),
      blob_meta_digest |-> "00",
      blob_meta_size |-> U64(0, 0),
      blob_toc_digest |-> "00",
      blob_toc_size |-> 0 ]

\* BlobManager::new_blob_ctx: the blob of the build itself.
NewBlobCtx(c, id) ==
    [ blob_id |-> id,
      chunk_size |-> c.chunk_size,
      chunk_source |-> "Build",
      blob_meta_info_enabled |-> (c.fs_version = 6),
      compressed_blob_size |-> U64(0, 0),
      blob_meta_digest |-> "00",
      blob_meta_size |-> U64(0, 0),
      blob_toc_digest |-> "00",
      blob_toc_size |-> 0 ]

\* Indices (from 0) of the manager blobs whose id is `id`, in ascending order.
MatchingIdx(bs, id) ==
    SelectSeq([i \in 1..Len(bs) |-> i - 1], LAMBDA i : bs[i + 1].blob_id = id)

\* A lookup that finds no blob.
GetBlobIdxByIdNone(bs, id) == None

\* BlobManager::get_blob_idx_by_id: the index of the first blob of that id.
GetBlobIdxById(bs, id) ==
    LET hits == MatchingIdx(bs, id)
    IN  IF hits = <<>> THEN None ELSE Some(hits[1])

\* BlobManager::get_current_blob: the index and the blob it designates;
\* indexing beyond the vector panics.
GetCurrentBlob(bs, cur) ==
    IF ~cur.some THEN [err |-> "", idx |-> None, blob |-> <<>>]
    ELSE IF cur.val < Len(bs)
    THEN [err |-> "", idx |-> cur, blob |-> <<bs[cur.val + 1]>>]
    ELSE [err |-> "panic", idx |-> cur, blob |-> <<>>]

\* BlobManager::take_blob
TakeBlob(bs, idx) == SubSeq(bs, 1, idx) \o SubSeq(bs, idx + 2, Len(bs))

\* extend_from_blob_table without the shift of the current blob index.
ExtendFromBlobTableNoShift(m, table) ==
    LET new == [i \in 1..Len(table) |-> BlobContextFrom(table[i], "Parent")]
    IN  IF m.current_blob_index.some
        THEN [ err |-> "", blobs |-> new \o m.blobs,
               current_blob_index |-> m.current_blob_index ]
        ELSE IF m.blobs # <<>>
        THEN [ err |-> "panic", blobs |-> m.blobs,
               current_blob_index |-> m.current_blob_index ]
        ELSE [ err |-> "", blobs |-> new, current_blob_index |-> m.current_blob_index ]

\* extend_from_blob_table without the assertion on the manager being empty.
ExtendFromBlobTableNoAssert(m, table) ==
    LET new == [i \in 1..Len(table) |-> BlobContextFrom(table[i], "Parent")]
    IN  IF m.current_blob_index.some
        THEN [ err |-> "", blobs |-> new \o m.blobs,
               current_blob_index |-> Some(m.current_blob_index.val + Len(new)) ]
        ELSE [ err |-> "", blobs |-> new, current_blob_index |-> m.current_blob_index ]

\* extend_from_blob_table putting the blobs of the table behind those held.
ExtendFromBlobTableBehind(m, table) ==
    LET new == [i \in 1..Len(table) |-> BlobContextFrom(table[i], "Parent")]
    IN  IF m.current_blob_index.some
        THEN [ err |-> "", blobs |-> m.blobs \o new,
               current_blob_index |-> Some(m.current_blob_index.val + Len(new)) ]
        ELSE IF m.blobs # <<>>
        THEN [ err |-> "panic", blobs |-> m.blobs,
               current_blob_index |-> m.current_blob_index ]
        ELSE [ err |-> "", blobs |-> new, current_blob_index |-> m.current_blob_index ]

\* BlobManager::extend_from_blob_table, all BlobContext::from calls succeeding.
\* m: blobs, current_blob_index. An assertion stops it when the manager holds
\* blobs and has no current blob.
ExtendFromBlobTable(m, table) ==
    LET new == [i \in 1..Len(table) |-> BlobContextFrom(table[i], "Parent")]
    IN  IF m.current_blob_index.some
        THEN [ err |-> "",
               blobs |-> new \o m.blobs,
               current_blob_index |-> Some(m.current_blob_index.val + Len(new)) ]
        ELSE IF m.blobs # <<>>
        THEN [ err |-> "panic", blobs |-> m.blobs,
               current_blob_index |-> m.current_blob_index ]
        ELSE [ err |-> "", blobs |-> new, current_blob_index |-> m.current_blob_index ]

\* extend_from_chunk_dict forgetting the indexes it recorded when it fails.
RECURSIVE ExtendFromChunkDictForgets(_, _, _, _)
ExtendFromChunkDictForgets(m, dict, k, fail_at) ==
    IF k > Len(dict) THEN m
    ELSE LET real == GetBlobIdxById(m.blobs, dict[k])
             alloc == AllocIndex(m.blobs)
             none == [i \in 1..Len(m.real_blob_idx) |-> None]
         IN  IF real.some
             THEN ExtendFromChunkDictForgets(
                      [m EXCEPT !.real_blob_idx[k] = real], dict, k + 1, fail_at)
             ELSE IF ~alloc.ok
             THEN [m EXCEPT !.err = "too_many_blobs", !.real_blob_idx = none]
             ELSE IF k = fail_at
             THEN [m EXCEPT !.err = "blob_from", !.real_blob_idx = none]
             ELSE ExtendFromChunkDictForgets(
                      [m EXCEPT !.blobs = Add(m.blobs, BlobContextFrom(DictInfo(dict[k]), "Dict")),
                                !.real_blob_idx[k] = Some(alloc.idx)],
                      dict, k + 1, fail_at)

\* BlobManager::extend_from_chunk_dict from the k-th blob of the dictionary on.
\* m: blobs, real_blob_idx, err. BlobContext::from fails on the blob at
\* position fail_at, should that blob have to be added (0: it never fails).
RECURSIVE ExtendFromChunkDict(_, _, _, _)
ExtendFromChunkDict(m, dict, k, fail_at) ==
    IF k > Len(dict) THEN m
    ELSE LET real == GetBlobIdxById(m.blobs, dict[k])
             alloc == AllocIndex(m.blobs)
         IN  IF real.some
             THEN ExtendFromChunkDict(
                      [m EXCEPT !.real_blob_idx[k] = real], dict, k + 1, fail_at)
             ELSE IF ~alloc.ok THEN [m EXCEPT !.err = "too_many_blobs"]
             ELSE IF k = fail_at THEN [m EXCEPT !.err = "blob_from"]
             ELSE ExtendFromChunkDict(
                      [m EXCEPT !.blobs = Add(m.blobs, BlobContextFrom(DictInfo(dict[k]), "Dict")),
                                !.real_blob_idx[k] = Some(alloc.idx)],
                      dict, k + 1, fail_at)

\* ------------------------------------------------------------ Merger::merge
\* The length checks without the one on the ToC sizes.
ArgsMatchButTocSizes(n, digests, sizes, toc_digests, toc_sizes) ==
    /\ digests.some => digests.val = n
    /\ toc_digests.some => toc_digests.val = n
    /\ sizes.some => sizes.val = n

\* Every override array that is given has one entry per source.
ArgsMatch(n, digests, sizes, toc_digests, toc_sizes) ==
    /\ digests.some => digests.val = n
    /\ toc_digests.some => toc_digests.val = n
    /\ sizes.some => sizes.val = n
    /\ toc_sizes.some => toc_sizes.val = n

\* The argument checks at the head of merge: the error they raise, "" if none.
CheckArgs(n, digests, sizes, toc_digests, toc_sizes) ==
    IF n = 0 THEN "empty_sources"
    ELSE IF ~ArgsMatch(n, digests, sizes, toc_digests, toc_sizes) THEN "unmatched_len"
    ELSE ""

\* The overrides of the layer's own blob. `in` holds the entries of the
\* override arrays at layer_idx and the layer's bootstrap path.
ApplyOverrides(c0, blob, in) ==
    LET c1 == [c0 EXCEPT !.blob_id =
                  IF blob_accessible THEN blob.id ELSE GetBlobIdFromMetaPath(in.path)]
        dg == FromHex(in.digest)
        c2 == IF ~blob_digests.some THEN c1
              ELSE IF blob.separate THEN [c1 EXCEPT !.blob_meta_digest = dg.bytes]
              ELSE [c1 EXCEPT !.blob_id = HexEncode(dg.bytes)]
        c3 == IF ~blob_sizes.some THEN c2
              ELSE IF blob.separate THEN [c2 EXCEPT !.blob_meta_size = in.size]
              ELSE [c2 EXCEPT !.compressed_blob_size = in.size]
        td == FromHex(in.toc_digest)
        c4 == IF blob_toc_digests.some THEN [c3 EXCEPT !.blob_toc_digest = td.bytes] ELSE c3
        c5 == IF blob_toc_sizes.some
              THEN [c4 EXCEPT !.blob_toc_size = AsU32(in.toc_size)] ELSE c4
    IN  IF blob_digests.some /\ ~dg.ok THEN [err |-> "bad_digest", blob_ctx |-> c1]
        ELSE IF blob_toc_digests.some /\ ~td.ok THEN [err |-> "bad_digest", blob_ctx |-> c3]
        ELSE [err |-> "", blob_ctx |-> c5]

\* A blob loop that adds every blob without looking it up.
LookupOrAddNoLookup(st, blob_ctx) ==
    [st EXCEPT !.blob_idx_map = Append(st.blob_idx_map, Len(st.blobs)),
               !.blobs = Add(st.blobs, blob_ctx)]

\* The manager lookup that ends the body of the blob loop: every manager blob
\* of that id pushes its index; with none, the blob is added at the end.
LookupOrAdd(st, blob_ctx) ==
    LET hits == MatchingIdx(st.blobs, blob_ctx.blob_id)
    IN  IF hits # <<>>
        THEN [st EXCEPT !.blob_idx_map = st.blob_idx_map \o hits]
        ELSE [st EXCEPT !.blob_idx_map = Append(st.blob_idx_map, Len(st.blobs)),
                        !.blobs = Add(st.blobs, blob_ctx)]

\* A chunk size check that lets every blob through.
ChunkSizeAny(cs, blob_ctx) == TRUE

\* The chunk size check of the blob loop.
ChunkSizeOk(cs, blob_ctx) == cs.some => cs.val = blob_ctx.chunk_size

\* Every blob taken for the layer's own blob.
IsOwnBlobAlways(blob) == TRUE

\* Whether the blob is the layer's own blob: its id is not one of the chunk dict.
IsOwnBlob(blob) == blob.id \notin chunk_dict_blobs

\* One pass of the blob loop, on one blob of the layer's blob table.
\* st: blobs, blob_idx_map, chunk_size, parent_blob_added, err.
ImportBlob(st, blob, in) ==
    LET c0 == BlobContextFrom(blob, "Parent")
        st1 == [st EXCEPT !.chunk_size = Some(c0.chunk_size)]
        ov == ApplyOverrides(c0, blob, in)
    IN  IF ~in.from_ok THEN [st EXCEPT !.err = "blob_from"]
        ELSE IF ~ChunkSizeOk(st.chunk_size, c0) THEN [st EXCEPT !.err = "chunk_size"]
        ELSE IF ~IsOwnBlob(blob) THEN LookupOrAdd(st1, c0)
        ELSE IF st.parent_blob_added THEN [st1 EXCEPT !.err = "multi_blob"]
        ELSE IF ov.err # "" THEN [st1 EXCEPT !.err = ov.err, !.parent_blob_added = TRUE]
        ELSE LookupOrAdd([st1 EXCEPT !.parent_blob_added = TRUE], ov.blob_ctx)

\* MetadataTreeBuilder::parse_node and the body of the walk callback: the node
\* of an inode, its chunks remapped, stamped with the layer.
RemapChunks(chunks, map) == [i \in 1..Len(chunks) |-> map[chunks[i] + 1]]

WalkNode(inode, map, layer) ==
    [ path |-> inode.path, wh |-> inode.wh,
      chunks |-> RemapChunks(inode.chunks, map),
      layer_idx |-> layer, overlay |-> "UpperAddition" ]

\* nodes.push(node) for every node.
CollectNodePush(ns, node) == Append(ns, node)

\* nodes.insert(0, node) for a whiteout, nodes.push(node) otherwise.
CollectNode(ns, node) == IF node.wh THEN <<node>> \o ns ELSE Append(ns, node)

RECURSIVE CollectNodes(_, _, _, _, _)
CollectNodes(ns, inodes, k, map, layer) ==
    IF k > Len(inodes) THEN ns
    ELSE CollectNodes(CollectNode(ns, WalkNode(inodes[k], map, layer)),
                      inodes, k + 1, map, layer)

\* Tree::from_bootstrap: the nodes of the bootstrap as they are stored.
TreeFromBootstrap(r) ==
    [ i \in 1..Len(r.inodes) |->
        [ path |-> r.inodes[i].path, wh |-> r.inodes[i].wh,
          chunks |-> r.inodes[i].chunks, layer_idx |-> 0, overlay |-> "Lower" ] ]

\* Tree::apply(node, true, WhiteoutSpec::Oci): a whiteout removes the path it
\* names; any other node replaces the node of its path or is added.
TreeApply(t, node) ==
    IF node.wh THEN SelectSeq(t, LAMBDA m : ~(m.path = node.path /\ ~m.wh))
    ELSE IF \E i \in 1..Len(t) : t[i].path = node.path /\ ~t[i].wh
         THEN [ i \in 1..Len(t) |->
                  IF t[i].path = node.path /\ ~t[i].wh THEN node ELSE t[i] ]
         ELSE Append(t, node)

RECURSIVE ApplyNodes(_, _, _)
ApplyNodes(t, ns, k) ==
    IF k > Len(ns) THEN t ELSE ApplyNodes(TreeApply(t, ns[k]), ns, k + 1)

\* BlobManager::to_blob_table: one entry per blob of the manager, in order.
ToBlobTable(bs, version) ==
    [ i \in 1..Len(bs) |->
        [ blob_id |-> bs[i].blob_id, chunk_size |-> bs[i].chunk_size,
          compressed_size |-> bs[i].compressed_blob_size,
          v6 |-> (version = 6) ] ]

\* RafsSuperConfig::check_compatibility
Compatible(cfg, meta) == cfg = meta

\* The blob id sets of the chunk dict bootstraps drawn as input; the bulk
\* dictionary is drawn for merges without override arrays.
DictIdSets(overridden) ==
    IF overridden THEN {SmallDictIds} ELSE {SmallDictIds, SmallDictIds \cup BulkIds}
\* The blob tables a layer built against that dictionary can carry.
TablesFor(dict_ids) == IF BulkIds \subseteq dict_ids THEN BulkTables ELSE SmallTables
TocDigestArgs == {"e1", "zz"}
TargetKinds == {"SingleFile", "FileDir"}

\* Return Err(e) with the temp file left where it is.
FailKeepTemp(e) ==
    /\ pc' = "failed"
    /\ err' = e
    /\ tmp_file' = tmp_file

\* Return Err(e): the locals of merge are dropped. Dropping the writer of a
\* FileDir target drops its TempFile, which unlinks the temp file; the file
\* opened at a SingleFile path stays as it is.
Fail(e) ==
    /\ pc' = "failed"
    /\ err' = e
    /\ tmp_file' = "absent"

\* BlobManager::new
MgrNew ==
    /\ blobs = <<>>
    /\ current_blob_index = None
    /\ dict_blobs = <<>>
    /\ real_blob_idx = <<>>
    /\ parent_table = <<>>
    /\ mgr_trace = <<>>
    /\ mgr_ret = NoRet

MergeInit ==
    /\ pc = "start"
    /\ MgrNew
    /\ BlobIdle
    /\ AuxIdle
    /\ err = ""
    /\ \E n \in 0..MaxLayers : sources = [i \in 1..n |-> SourcePath(i - 1)]
    /\ \E o \in OverrideArgs :
          /\ blob_digests = o.digests
          /\ blob_sizes = o.sizes
          /\ blob_toc_digests = o.toc_digests
          /\ blob_toc_sizes = o.toc_sizes
    /\ blob_accessible \in BOOLEAN
    /\ target = "unread"
    /\ chunk_dict_blobs = {}
    /\ config = None
    /\ fs_version = 6
    /\ chunk_size = None
    /\ tree = NoTree
    /\ layer_idx = 0
    /\ rs = NoRs
    /\ blob_idx_map = <<>>
    /\ parent_blob_added = FALSE
    /\ blob_k = 0
    /\ nodes = <<>>
    /\ ctx = [fs_version |-> 6, chunk_size |-> 1048576]
    /\ target_file = "absent"
    /\ tmp_file = "absent"
    /\ blob_table = <<>>

\* merge.rs 68-102: the checks on the arguments.
MergeCheckArgs ==
    /\ pc = "start"
    /\ LET e == CheckArgs(Len(sources), blob_digests, blob_sizes,
                          blob_toc_digests, blob_toc_sizes)
       IN  IF e # "" THEN Fail(e)
           ELSE pc' = "dict" /\ UNCHANGED <<err, tmp_file>>
    /\ UNCHANGED << mgrVars, blobVars, auxVars, sources, blob_digests, blob_sizes, blob_toc_digests, blob_toc_sizes,
                    blob_accessible, chunk_dict_blobs, config, fs_version, chunk_size,
                    tree, blobs, layer_idx, rs, blob_idx_map, parent_blob_added, blob_k, nodes,
                    ctx, target,
                    target_file, blob_table >>

\* merge.rs 104-120: the blob ids and the config of the chunk dict bootstrap.
MergeLoadChunkDict ==
    /\ pc = "dict"
    /\ \/ /\ pc' = "load"                 \* chunk_dict is None
          /\ UNCHANGED <<chunk_dict_blobs, config, err, tmp_file>>
       \/ /\ Fail("load_chunk_dict")      \* RafsSuper::load_from_file fails
          /\ UNCHANGED <<chunk_dict_blobs, config>>
       \/ \E ids \in DictIdSets(blob_digests.some), meta \in Metas :
            /\ chunk_dict_blobs' = ids
            /\ config' = Some(meta)
            /\ pc' = "load"
            /\ UNCHANGED <<err, tmp_file>>
    /\ UNCHANGED << mgrVars, blobVars, auxVars, sources, blob_digests, blob_sizes, blob_toc_digests, blob_toc_sizes,
                    blob_accessible, fs_version, chunk_size,
                    tree, blobs, layer_idx, rs, blob_idx_map, parent_blob_added, blob_k, nodes,
                    ctx, target,
                    target_file, blob_table >>

\* merge.rs 122-132: load the bootstrap of the layer, check it against the
\* config, take over its version.
MergeLoadLayer ==
    /\ pc = "load"
    /\ \/ /\ Fail("load_bootstrap")
          /\ UNCHANGED <<rs, config, fs_version, blob_idx_map, parent_blob_added, blob_k>>
       \/ \E meta \in Metas, table \in TablesFor(chunk_dict_blobs) :
          \E walk \in Walks(Len(table)) :
            LET cfg == IF config.some THEN config ELSE Some(meta)
            IN  /\ rs' = [meta |-> meta, blobs |-> table, inodes |-> walk]
                /\ blob_idx_map' = <<>>
                /\ parent_blob_added' = FALSE
                /\ blob_k' = 0
                /\ config' = cfg
                /\ IF Compatible(cfg.val, meta)
                   THEN /\ fs_version' = meta
                        /\ pc' = IF Len(table) = 0 THEN "tree" ELSE "import"
                        /\ UNCHANGED <<err, tmp_file>>
                   ELSE /\ Fail("incompatible")
                        /\ UNCHANGED fs_version
    /\ UNCHANGED << mgrVars, blobVars, auxVars, sources, blob_digests, blob_sizes, blob_toc_digests, blob_toc_sizes,
                    blob_accessible, chunk_dict_blobs, chunk_size,
                    tree, blobs, layer_idx, nodes, ctx, target,
                    target_file, blob_table >>

\* merge.rs 136-200: one pass of the loop over the blobs of the layer.
MergeImportBlob ==
    /\ pc = "import"
    /\ blob_k < Len(rs.blobs)
    /\ \E from_ok \in BOOLEAN,
          digest \in DigestArgs, toc_digest \in TocDigestArgs,
          size \in SizeArgs, toc_size \in SizeArgs :
         LET in == [ path |-> sources[layer_idx + 1], from_ok |-> from_ok,
                     digest |-> digest, size |-> size,
                     toc_digest |-> toc_digest, toc_size |-> toc_size ]
             st0 == [ blobs |-> blobs, blob_idx_map |-> blob_idx_map,
                      chunk_size |-> chunk_size,
                      parent_blob_added |-> parent_blob_added, err |-> "" ]
             st == ImportBlob(st0, rs.blobs[blob_k + 1], in)
         IN  /\ blobs' = st.blobs
             /\ blob_idx_map' = st.blob_idx_map
             /\ chunk_size' = st.chunk_size
             /\ parent_blob_added' = st.parent_blob_added
             /\ IF st.err # ""
                THEN Fail(st.err) /\ blob_k' = blob_k
                ELSE /\ blob_k' = blob_k + 1
                     /\ pc' = IF blob_k + 1 = Len(rs.blobs) THEN "tree" ELSE "import"
                     /\ UNCHANGED <<err, tmp_file>>
    /\ UNCHANGED << mgrVars, blobVars, auxVars, sources, blob_digests, blob_sizes, blob_toc_digests, blob_toc_sizes,
                    blob_accessible, chunk_dict_blobs, config, fs_version,
                    tree, layer_idx, rs, nodes, ctx, target,
                    target_file, blob_table >>

\* The layer's nodes are in the tree: the end of the body of the layer loop.
LayerDone ==
    /\ pc' = "layer_end"
    /\ UNCHANGED <<err, tmp_file, layer_idx>>

\* merge.rs 239-242: the first layer becomes the tree as it is.
MergeFirstTree ==
    /\ pc = "tree"
    /\ ~tree.some
    /\ \/ /\ tree' = [some |-> TRUE, nodes |-> TreeFromBootstrap(rs)]
          /\ LayerDone
       \/ /\ Fail("from_bootstrap")
          /\ UNCHANGED <<tree, layer_idx>>
    /\ UNCHANGED << mgrVars, blobVars, auxVars, sources, blob_digests, blob_sizes, blob_toc_digests, blob_toc_sizes,
                    blob_accessible, chunk_dict_blobs, config, fs_version, chunk_size,
                    blobs, rs, blob_idx_map, parent_blob_added, blob_k, nodes, ctx, target,
                    target_file, blob_table >>

\* merge.rs 202-238: walk the layer, collect its nodes, apply them to the tree.
MergeApplyLayer ==
    /\ pc = "tree"
    /\ tree.some
    /\ \/ /\ Len(rs.inodes) > 0 => layer_idx <= U16Max
          /\ nodes' = CollectNodes(<<>>, rs.inodes, 1, blob_idx_map, layer_idx)
          /\ tree' = [some |-> TRUE, nodes |-> ApplyNodes(tree.nodes, nodes', 1)]
          /\ LayerDone
       \/ /\ Len(rs.inodes) > 0
          /\ Fail(IF layer_idx > U16Max THEN "too_many_layers" ELSE "parse_node")
          /\ UNCHANGED <<tree, layer_idx, nodes>>
       \/ /\ Len(rs.inodes) > 0 /\ layer_idx <= U16Max
          /\ nodes' = CollectNodes(<<>>, rs.inodes, 1, blob_idx_map, layer_idx)
          /\ Fail("tree_apply")
          /\ UNCHANGED <<tree, layer_idx>>
    /\ UNCHANGED << mgrVars, blobVars, auxVars, sources, blob_digests, blob_sizes, blob_toc_digests, blob_toc_sizes,
                    blob_accessible, chunk_dict_blobs, config, fs_version, chunk_size,
                    blobs, rs, blob_idx_map, parent_blob_added, blob_k, ctx, target,
                    target_file, blob_table >>

\* merge.rs 122, 243: the locals of the loop body go out of scope, the loop
\* moves on to the next layer or ends.
MergeNextLayer ==
    /\ pc = "layer_end"
    /\ layer_idx' = layer_idx + 1
    /\ pc' = IF layer_idx + 1 < Len(sources) THEN "load" ELSE "create"
    /\ rs' = NoRs
    /\ blob_idx_map' = <<>>
    /\ parent_blob_added' = FALSE
    /\ blob_k' = 0
    /\ nodes' = <<>>
    /\ UNCHANGED << mgrVars, blobVars, auxVars, err, sources, blob_digests, blob_sizes, blob_toc_digests,
                    blob_toc_sizes, blob_accessible, chunk_dict_blobs, config,
                    fs_version, chunk_size, tree, blobs, ctx, target, target_file,
                    tmp_file, blob_table >>

\* merge.rs 245-253: fix the context, open the output (ArtifactWriter::new
\* with fifo = false: a SingleFile path is created and truncated, a FileDir
\* gets a temp file; the open for reading can fail once the SingleFile path
\* is created). `target` is read here for the first time, and drawn here.
MergeCreateOutput ==
    /\ pc = "create"
    /\ ctx' = [fs_version |-> fs_version,
               chunk_size |-> IF chunk_size.some THEN chunk_size.val ELSE ctx.chunk_size]
    /\ target' \in TargetKinds
    /\ \/ /\ Fail("open_output")
          /\ \/ target_file' = target_file
             \/ target' = "SingleFile" /\ target_file' = "empty"
       \/ /\ pc' = "build"
          /\ err' = err
          /\ IF target' = "SingleFile"
             THEN target_file' = "empty" /\ tmp_file' = tmp_file
             ELSE target_file' = target_file /\ tmp_file' = "present"
    /\ UNCHANGED << mgrVars, blobVars, auxVars, sources, blob_digests, blob_sizes, blob_toc_digests, blob_toc_sizes,
                    blob_accessible, chunk_dict_blobs, config, fs_version, chunk_size,
                    tree, blobs, layer_idx, rs, blob_idx_map, parent_blob_added, blob_k,
                    nodes, blob_table >>

\* merge.rs 253-254: Bootstrap::new and Bootstrap::build.
MergeBuild ==
    /\ pc = "build"
    /\ \/ pc' = "dump" /\ UNCHANGED <<err, tmp_file>>
       \/ Fail("build")
    /\ UNCHANGED << mgrVars, blobVars, auxVars, sources, blob_digests, blob_sizes, blob_toc_digests, blob_toc_sizes,
                    blob_accessible, chunk_dict_blobs, config, fs_version, chunk_size,
                    tree, blobs, layer_idx, rs, blob_idx_map, parent_blob_added, blob_k, nodes,
                    ctx, target,
                    target_file, blob_table >>

\* merge.rs 255-260: the blob table, Bootstrap::dump (which writes the
\* bootstrap and finalizes the writer under its name), the BuildOutput.
MergeDump ==
    /\ pc = "dump"
    /\ blob_table' = ToBlobTable(blobs, ctx.fs_version)
    /\ \/ /\ pc' = "done"
          /\ err' = err
          /\ target_file' = "complete"
          /\ tmp_file' = "absent"
       \/ /\ Fail("dump")
          /\ \/ target_file' = target_file
             \/ target = "SingleFile" /\ target_file' = "partial"
    /\ UNCHANGED << mgrVars, blobVars, auxVars, sources, blob_digests, blob_sizes, blob_toc_digests, blob_toc_sizes,
                    blob_accessible, chunk_dict_blobs, config, fs_version, chunk_size,
                    tree, blobs, layer_idx, rs, blob_idx_map, parent_blob_added, blob_k,
                    nodes, ctx, target >>

MergeNext ==
    \/ MergeCheckArgs
    \/ MergeLoadChunkDict
    \/ MergeLoadLayer
    \/ MergeImportBlob
    \/ MergeFirstTree
    \/ MergeApplyLayer
    \/ MergeNextLayer
    \/ MergeCreateOutput
    \/ MergeBuild
    \/ MergeDump

\* The specification of Merger::merge.
Spec == MergeInit /\ [][MergeNext]_vars

\* ------------------------------------------------------------- BlobManager
\* Blob ids of the blob tables and dictionaries handed to a BlobManager.
MgrIds == {"A", "B", "C"}
\* ctx.blob_id of the build: not given, or the id of a blob met elsewhere.
CtxBlobIds == {"", "C"}
\* Blob tables of a parent bootstrap.
SmallParentTables == SeqsUpTo({DictInfo(id) : id \in MgrIds}, MaxTable)
\* A parent blob table that holds one blob more than the blob index domain
\* has values, ending with the blobs A and B.
BulkParentTable ==
    [ i \in 1..(MaxBlobs + 1) |->
        IF i < MaxBlobs THEN DictInfo(BulkSeq[i])
        ELSE IF i = MaxBlobs THEN DictInfo("A") ELSE DictInfo("B") ]
ParentTables == SmallParentTables \cup {BulkParentTable}
\* The blob ids of a chunk dictionary, by internal blob index.
DictLists == SeqsUpTo(MgrIds, MaxTable)

\* The last operation called on the manager, and the one before it.
LastCall == mgr_trace[Len(mgr_trace)]
Panicked == Len(mgr_trace) > 0 /\ LastCall.err = "panic"
CanCall == Len(mgr_trace) < MaxCalls /\ ~Panicked
Called(op, e) == mgr_trace' = Append(mgr_trace, [op |-> op, err |-> e])

\* No merge is running on the manager.
MergeIdle ==
    /\ pc = "idle"
    /\ err = ""
    /\ sources = <<>>
    /\ blob_digests = None /\ blob_sizes = None
    /\ blob_toc_digests = None /\ blob_toc_sizes = None
    /\ blob_accessible = TRUE
    /\ target = "unread"
    /\ chunk_dict_blobs = {}
    /\ config = None
    /\ fs_version = 6
    /\ chunk_size = None
    /\ tree = NoTree
    /\ layer_idx = 0
    /\ rs = NoRs
    /\ blob_idx_map = <<>>
    /\ parent_blob_added = FALSE
    /\ blob_k = 0
    /\ nodes = <<>>
    /\ ctx \in {[fs_version |-> v, chunk_size |-> 1048576] : v \in Metas}
    /\ target_file = "absent"
    /\ tmp_file = "absent"
    /\ blob_table = <<>>

MgrInit == MgrNew /\ MergeIdle /\ BlobIdle /\ AuxIdle

\* BlobManager::set_chunk_dict: a dictionary that has no real index yet.
MgrSetChunkDict ==
    /\ CanCall
    /\ \E d \in DictLists :
          /\ dict_blobs' = d
          /\ real_blob_idx' = [i \in 1..Len(d) |-> None]
    /\ Called("set_chunk_dict", "")
    /\ UNCHANGED << mergeVars, blobVars, auxVars, blobs, current_blob_index, parent_table, mgr_ret >>

\* BlobManager::get_or_create_current_blob
MgrGetOrCreateCurrentBlob ==
    /\ CanCall
    /\ IF current_blob_index.some
       THEN /\ UNCHANGED << blobs, current_blob_index >>
       ELSE LET alloc == AllocIndex(blobs)
            IN  IF alloc.ok
                THEN \E id \in CtxBlobIds :
                       /\ current_blob_index' = Some(alloc.idx)
                       /\ blobs' = Add(blobs, NewBlobCtx(ctx, id))
                ELSE UNCHANGED << blobs, current_blob_index >>
    /\ IF ~current_blob_index'.some
       THEN /\ Called("get_or_create_current_blob", "too_many_blobs")
            /\ UNCHANGED mgr_ret
       ELSE LET got == GetCurrentBlob(blobs', current_blob_index')
            IN  /\ Called("get_or_create_current_blob", got.err)
                /\ mgr_ret' = [mgr_ret EXCEPT !.idx = got.idx, !.blob = got.blob]
    /\ UNCHANGED << mergeVars, blobVars, auxVars, dict_blobs, real_blob_idx, parent_table >>

\* BlobManager::alloc_index and BlobManager::add, paired as their callers do.
MgrAdd ==
    /\ CanCall
    /\ LET alloc == AllocIndex(blobs)
       IN  IF alloc.ok
           THEN \E id \in MgrIds :
                  /\ blobs' = Add(blobs, BlobContextFrom(DictInfo(id), "Build"))
                  /\ Called("add", "")
           ELSE /\ Called("add", "too_many_blobs")
                /\ UNCHANGED blobs
    /\ UNCHANGED << mergeVars, blobVars, auxVars, current_blob_index, dict_blobs, real_blob_idx, parent_table, mgr_ret >>

\* BlobManager::take_blob
MgrTakeBlob ==
    /\ CanCall
    /\ \E idx \in {0, Len(blobs) - 1} :
          /\ idx >= 0
          /\ IF idx < Len(blobs)
             THEN /\ blobs' = TakeBlob(blobs, idx)
                  /\ Called("take_blob", "")
             ELSE /\ Called("take_blob", "panic")    \* Vec::remove out of bounds
                  /\ UNCHANGED blobs
    /\ UNCHANGED << mergeVars, blobVars, auxVars, current_blob_index, dict_blobs, real_blob_idx, parent_table, mgr_ret >>

\* BlobManager::extend_from_blob_table
MgrExtendFromBlobTable ==
    /\ CanCall
    /\ \E table \in ParentTables :
          \/ /\ table # <<>>              \* a BlobContext::from fails
             /\ Called("extend_from_blob_table", "blob_from")
             /\ UNCHANGED << blobs, current_blob_index, parent_table >>
          \/ LET m == ExtendFromBlobTable(
                          [blobs |-> blobs, current_blob_index |-> current_blob_index],
                          table)
             IN  /\ blobs' = m.blobs
                 /\ current_blob_index' = m.current_blob_index
                 /\ parent_table' = IF m.err = "" THEN table ELSE parent_table
                 /\ Called("extend_from_blob_table", m.err)
    /\ UNCHANGED << mergeVars, blobVars, auxVars, dict_blobs, real_blob_idx, mgr_ret >>

\* BlobManager::extend_from_chunk_dict
MgrExtendFromChunkDict ==
    /\ CanCall
    /\ \E fail_at \in 0..Len(dict_blobs) :
          LET m == ExtendFromChunkDict(
                       [blobs |-> blobs, real_blob_idx |-> real_blob_idx, err |-> ""],
                       dict_blobs, 1, fail_at)
          IN  /\ blobs' = m.blobs
              /\ real_blob_idx' = m.real_blob_idx
              /\ Called("extend_from_chunk_dict", m.err)
    /\ UNCHANGED << mergeVars, blobVars, auxVars, current_blob_index, dict_blobs, parent_table, mgr_ret >>

\* BlobManager::to_blob_table
MgrToBlobTable ==
    /\ CanCall
    /\ mgr_ret' = [mgr_ret EXCEPT !.table = ToBlobTable(blobs, ctx.fs_version)]
    /\ Called("to_blob_table", "")
    /\ UNCHANGED << mergeVars, blobVars, auxVars, blobs, current_blob_index, dict_blobs, real_blob_idx,
                    parent_table >>

MgrNext ==
    \/ MgrSetChunkDict
    \/ MgrGetOrCreateCurrentBlob
    \/ MgrAdd
    \/ MgrTakeBlob
    \/ MgrExtendFromBlobTable
    \/ MgrExtendFromChunkDict
    \/ MgrToBlobTable

\* The specification of a BlobManager under the operations of its callers.
SpecMgr == MgrInit /\ [][MgrNext]_vars

\* A manager that was given a chunk dictionary with blobs when it was set up
\* (BlobManager::new, then set_chunk_dict), before any import.
MgrDictInit ==
    /\ MergeIdle /\ BlobIdle /\ AuxIdle
    /\ blobs = <<>>
    /\ current_blob_index = None
    /\ dict_blobs \in {<<"A">>, <<"B", "C">>}
    /\ real_blob_idx = [i \in 1..Len(dict_blobs) |-> None]
    /\ parent_table = <<>>
    /\ mgr_trace = <<>>
    /\ mgr_ret = NoRet

\* The imports, the creation of the current blob and the removal of a blob.
MgrDictNext ==
    \/ MgrGetOrCreateCurrentBlob
    \/ MgrExtendFromBlobTable
    \/ MgrExtendFromChunkDict
    \/ MgrTakeBlob

\* The specification of a BlobManager with a chunk dictionary under imports
\* in any order.
SpecMgrDict == MgrDictInit /\ [][MgrDictNext]_vars

\* ============================================================== BlobContext
\* Calls made on the BlobContext in one behaviour.
MaxBlobCalls == 4
\* 0xff_ffff: the chunk count at which alloc_chunk_index fails.
ChunkIndexLimit == 16777215

\* ctx.prefetch.policy and ctx.conversion_type (EStargzIndexToRef against any
\* other conversion).
PrefetchPolicies == {"None", "Fs", "Blob"}
ConversionTypes == {"DirectoryToRafs", "EStargzIndexToRef"}

\* BlobContext::new. v2: features contain CHUNK_INFO_V2. blob_meta_info holds
\* one entry per chunk added (the chunk's index, and the call that made the
\* entry), blob_chunk_digest the chunk whose digest each entry is.
BlobContextNew(blob_id, v2) ==
    [ origin |-> "new",
      blob_id |-> blob_id,
      v2 |-> v2,
      blob_prefetch_size |-> 0,
      blob_meta_info_enabled |-> FALSE,
      blob_meta_info |-> <<>>,
      blob_chunk_digest |-> <<>>,
      compressed_blob_size |-> 0,
      chunk_count |-> 0 ]

\* BlobContext::from: prefetch size, chunk count and compressed size are those
\* of the BlobInfo, meta info is enabled iff the BlobInfo's chunk-info meta is
\* valid, and the two arrays are empty.
BlobContextOf(blob) ==
    [ BlobContextNew(blob.blob_id, blob.v2) EXCEPT
        !.origin = "from",
        !.blob_prefetch_size = blob.prefetch_size,
        !.chunk_count = blob.chunk_count,
        !.compressed_blob_size = blob.compressed_size,
        !.blob_meta_info_enabled = blob.meta_ci_valid ]

\* BlobInfo values a BlobContext is made from.
BlobInfoArgs ==
    [ blob_id : CtxBlobIds, v2 : {FALSE}, prefetch_size : {0, 4096},
      chunk_count : {2}, compressed_size : {0, 16},
      meta_ci_valid : BOOLEAN ]

\* alloc_chunk_index called n times on a context that BlobContext::new made
\* (no call fails while n is at most the limit).
AllocatedTimes(b, n) == [b EXCEPT !.chunk_count = n]

\* BlobContext::set_meta_info_enabled
SetMetaInfoEnabled(b, enable) == [b EXCEPT !.blob_meta_info_enabled = enable]

\* set_blob_prefetch_size reading its condition as "zero unless the policy is
\* Blob and the blob has content".
SetBlobPrefetchSizeUnless(b, conv, policy) ==
    IF policy = "Blob"
       /\ (b.compressed_blob_size > 0 \/ (conv = "EStargzIndexToRef" /\ b.blob_id # ""))
    THEN b
    ELSE [b EXCEPT !.blob_prefetch_size = 0]

\* BlobContext::set_blob_prefetch_size
SetBlobPrefetchSize(b, conv, policy) ==
    IF /\ b.compressed_blob_size > 0 \/ (conv = "EStargzIndexToRef" /\ b.blob_id # "")
       /\ policy # "Blob"
    THEN [b EXCEPT !.blob_prefetch_size = 0]
    ELSE b

\* add_chunk_meta_info pushing the meta entry but no digest.
AddChunkMetaInfoNoDigest(b, index, info) ==
    IF ~b.blob_meta_info_enabled THEN [err |-> "", bc |-> b]
    ELSE IF index # Len(b.blob_meta_info) THEN [err |-> "panic", bc |-> b]
    ELSE [ err |-> "",
           bc |-> [b EXCEPT !.blob_meta_info =
                       Append(@, [index |-> index, by |-> "add_v1"])] ]

\* add_chunk_meta_info without the assertion on the chunk's index.
AddChunkMetaInfoAnyIndex(b, index, info) ==
    IF ~b.blob_meta_info_enabled THEN [err |-> "", bc |-> b]
    ELSE LET by == IF ~b.v2 THEN "add_v1"
                   ELSE IF info THEN "add_v2_info" ELSE "add_v2"
         IN  [ err |-> "",
               bc |-> [b EXCEPT
                         !.blob_meta_info = Append(@, [index |-> index, by |-> by]),
                         !.blob_chunk_digest = Append(@, index)] ]

\* BlobContext::add_chunk_meta_info for a chunk of the given index; info: a
\* BlobChunkInfoV2Ondisk comes with it.
AddChunkMetaInfo(b, index, info) ==
    IF ~b.blob_meta_info_enabled THEN [err |-> "", bc |-> b]
    ELSE IF index # Len(b.blob_meta_info) THEN [err |-> "panic", bc |-> b]
    ELSE LET by == IF ~b.v2 THEN "add_v1"
                   ELSE IF info THEN "add_v2_info" ELSE "add_v2"
         IN  [ err |-> "",
               bc |-> [b EXCEPT
                         !.blob_meta_info = Append(@, [index |-> index, by |-> by]),
                         !.blob_chunk_digest = Append(@, index)] ]

\* alloc_chunk_index failing one chunk late.
AllocChunkIndexLate(b) ==
    IF b.chunk_count >= ChunkIndexLimit + 1
    THEN [err |-> "limit", index |-> 0, bc |-> b]
    ELSE [err |-> "", index |-> b.chunk_count,
          bc |-> [b EXCEPT !.chunk_count = @ + 1]]

\* BlobContext::alloc_chunk_index
AllocChunkIndex(b) ==
    IF b.chunk_count >= ChunkIndexLimit
    THEN [err |-> "limit", index |-> 0, bc |-> b]
    ELSE [err |-> "", index |-> b.chunk_count,
          bc |-> [b EXCEPT !.chunk_count = @ + 1]]

\* BlobContext::blob_id()
BlobIdOf(b) == IF b.compressed_blob_size > 0 THEN Some(b.blob_id) ELSE NoneStr

BlobLastCall == bc_trace[Len(bc_trace)]
BlobCanCall ==
    /\ Len(bc_trace) < MaxBlobCalls
    /\ bc_trace # <<>> => BlobLastCall.err # "panic"
BlobCalled(op, e, index, flag, conv, policy) ==
    bc_trace' = Append(bc_trace, [op |-> op, err |-> e, index |-> index, flag |-> flag,
                                  conv |-> conv, policy |-> policy])

\* A BlobContext from BlobContext::new (fresh, with meta info enabled or not
\* as new_blob_ctx leaves it, or two chunks short of the limit) or from
\* BlobContext::from.
BlobInit ==
    /\ MgrNew
    /\ MergeIdle
    /\ ctx.fs_version = 6
    /\ AuxIdle
    /\ \/ \E id \in CtxBlobIds, v2 \in BOOLEAN, enable \in BOOLEAN :
            bc = SetMetaInfoEnabled(BlobContextNew(id, v2), enable)
       \/ \E id \in CtxBlobIds, v2 \in BOOLEAN :
            bc = AllocatedTimes(BlobContextNew(id, v2), ChunkIndexLimit - 2)
       \/ \E blob \in BlobInfoArgs : bc = BlobContextOf(blob)
    /\ bc0 = bc
    /\ bc_trace = <<>>

BlobSetMetaInfoEnabled ==
    /\ BlobCanCall
    /\ \E enable \in BOOLEAN :
          /\ bc' = SetMetaInfoEnabled(bc, enable)
          /\ BlobCalled("set_meta_info_enabled", "", 0, enable, "", "")
    /\ UNCHANGED << mergeVars, blobs, mgrVars, auxVars, bc0 >>

BlobSetBlobPrefetchSize ==
    /\ BlobCanCall
    /\ \E conv \in ConversionTypes, policy \in PrefetchPolicies :
          /\ bc' = SetBlobPrefetchSize(bc, conv, policy)
          /\ BlobCalled("set_blob_prefetch_size", "", 0, FALSE, conv, policy)
    /\ UNCHANGED << mergeVars, blobs, mgrVars, auxVars, bc0 >>

\* add_chunk_meta_info for the chunk that got the last index allocated, or
\* for a chunk whose index is the length of the meta array.
BlobAddChunkMetaInfo ==
    /\ BlobCanCall
    /\ \E index \in {bc.chunk_count - 1, Len(bc.blob_meta_info)}, info \in BOOLEAN :
          /\ index >= 0
          /\ info => bc.v2
          /\ LET r == AddChunkMetaInfo(bc, index, info)
             IN  /\ bc' = r.bc
                 /\ BlobCalled("add_chunk_meta_info", r.err, index, info, "", "")
    /\ UNCHANGED << mergeVars, blobs, mgrVars, auxVars, bc0 >>

BlobAllocChunkIndex ==
    /\ BlobCanCall
    /\ LET r == AllocChunkIndex(bc)
       IN  /\ bc' = r.bc
           /\ BlobCalled("alloc_chunk_index", r.err, r.index, FALSE, "", "")
    /\ UNCHANGED << mergeVars, blobs, mgrVars, auxVars, bc0 >>

BlobNext ==
    \/ BlobSetMetaInfoEnabled
    \/ BlobSetBlobPrefetchSize
    \/ BlobAddChunkMetaInfo
    \/ BlobAllocChunkIndex

\* The specification of one BlobContext under the calls of the builder.
SpecBlob == BlobInit /\ [][BlobNext]_vars

\* =========================================================== ArtifactWriter
\* Calls made on the writer in one behaviour.
MaxWriterCalls == 3
\* Length of header.as_bytes(), the tar header block.
TarHeaderLen == 512

\* The bytes a caller writes, and the bytes of a tar header.
Payload == <<1, 2>>
TarHeader == [i \in 1..TarHeaderLen |-> 0]
\* The names finalize is called with.
FinalNames == {NoneStr, Some("N"), Some("M")}

\* The file after `bytes` were written at offset `at`.
WriteAt(data, at, bytes) ==
    [ i \in 1..(IF Len(data) > at + Len(bytes) THEN Len(data) ELSE at + Len(bytes)) |->
        IF i > at /\ i <= at + Len(bytes) THEN bytes[i - at] ELSE data[i] ]

\* BufWriter::flush succeeding: the buffered bytes go to the file at its
\* offset.
Flushed(w) ==
    [w EXCEPT !.data = WriteAt(w.data, w.cursor, w.buf),
              !.cursor = w.cursor + Len(w.buf),
              !.buf = <<>>]

\* ArtifactWriter::new on FileDir storage: a temp file in the directory, kept
\* by tmp_file; dir/N is absent or another file, dir/M is absent. The
\* writer's own file is "writer" wherever its name is.
NewFileDir(n_entry) ==
    [ storage |-> "FileDir", alive |-> TRUE, pos |-> 0,
      buf |-> <<>>, data |-> <<>>, cursor |-> 0, accepted |-> <<>>,
      tmp_file |-> TRUE,
      files |-> [tmp |-> "writer", N |-> n_entry, M |-> "absent", target |-> "absent"],
      trace |-> <<>> ]

\* ArtifactWriter::new on SingleFile storage: the target is the regular file
\* just opened (created and truncated), or the FIFO opened without truncation.
NewSingleFile(fifo) ==
    [ storage |-> "SingleFile", alive |-> TRUE, pos |-> 0,
      buf |-> <<>>, data |-> <<>>, cursor |-> 0, accepted |-> <<>>,
      tmp_file |-> FALSE,
      files |-> [tmp |-> "absent", N |-> "absent", M |-> "absent",
                 target |-> IF fifo THEN "fifo" ELSE "writer"],
      trace |-> <<>> ]

AwCalled(w, op, name, e) ==
    [w EXCEPT !.trace = Append(@, [op |-> op, name |-> name, err |-> e])]

\* write counting a byte less than it accepted.
WriteShortPos(w, bytes, how, n) ==
    IF how = "fail" THEN [err |-> "io", n |-> 0, w |-> w]
    ELSE LET taken == SubSeq(bytes, 1, n)
         IN  [ err |-> "", n |-> n,
               w |-> [w EXCEPT !.buf = @ \o taken, !.pos = @ + n - 1,
                               !.accepted = @ \o taken] ]

\* impl Write for ArtifactWriter, write: n bytes are accepted (all of them
\* into the buffer, after a flush of the buffer or not; or the first n
\* straight to the file), or the write fails and accepts nothing.
\* how: "buffer", "flush_buffer", "direct", "fail".
Write(w, bytes, how, n) ==
    IF how = "fail" THEN [err |-> "io", n |-> 0, w |-> w]
    ELSE LET taken == SubSeq(bytes, 1, n)
             v == IF how = "buffer" THEN [w EXCEPT !.buf = @ \o taken]
                  ELSE IF how = "flush_buffer" THEN [Flushed(w) EXCEPT !.buf = taken]
                  ELSE [Flushed(w) EXCEPT !.data = WriteAt(Flushed(w).data, Flushed(w).cursor, taken),
                                          !.cursor = Flushed(w).cursor + n]
         IN  [ err |-> "", n |-> n,
               w |-> [v EXCEPT !.pos = @ + n, !.accepted = @ \o taken] ]

\* finalize(None) removing the target whatever kind of file it is.
FinalizeRemoveAny(w, name, flush_ok, rename_ok, remove_ok) ==
    IF ~flush_ok /\ w.buf # <<>> THEN [err |-> "flush", w |-> w]
    ELSE IF ~name.some /\ w.storage = "SingleFile" /\ w.files.target # "absent"
    THEN IF remove_ok
         THEN [err |-> "", w |-> [Flushed(w) EXCEPT !.files.target = "absent"]]
         ELSE [err |-> "remove", w |-> Flushed(w)]
    ELSE [err |-> "", w |-> Flushed(w)]

\* finalize renaming the temp file without the flush of the buffer.
FinalizeNoFlush(w, name, flush_ok, rename_ok, remove_ok) ==
    IF ~flush_ok /\ w.buf # <<>> THEN [err |-> "flush", w |-> w]
    ELSE IF name.some /\ w.storage = "FileDir" /\ w.files[name.val] = "absent" /\ w.tmp_file
    THEN IF rename_ok /\ w.files.tmp # "absent"
         THEN [ err |-> "",
                w |-> [w EXCEPT !.files[name.val] = w.files.tmp, !.files.tmp = "absent"] ]
         ELSE [err |-> "rename", w |-> w]
    ELSE IF ~name.some /\ w.storage = "SingleFile" /\ w.files.target = "writer"
    THEN IF remove_ok
         THEN [err |-> "", w |-> [w EXCEPT !.files.target = "absent"]]
         ELSE [err |-> "remove", w |-> w]
    ELSE [err |-> "", w |-> w]

\* finalize whose rename finds the temp file whether it is still there or not.
FinalizeRenameVanished(w, name, flush_ok, rename_ok, remove_ok) ==
    IF ~flush_ok /\ w.buf # <<>> THEN [err |-> "flush", w |-> w]
    ELSE LET f == Flushed(w)
         IN  IF name.some
             THEN IF f.storage = "FileDir" /\ f.files[name.val] = "absent" /\ f.tmp_file
                  THEN IF rename_ok
                       THEN [ err |-> "",
                              w |-> [f EXCEPT !.files[name.val] = "writer",
                                              !.files.tmp = "absent"] ]
                       ELSE [err |-> "rename", w |-> f]
                  ELSE [err |-> "", w |-> f]
             ELSE IF f.storage = "SingleFile" /\ f.files.target = "writer"
                  THEN IF remove_ok
                       THEN [err |-> "", w |-> [f EXCEPT !.files.target = "absent"]]
                       ELSE [err |-> "remove", w |-> f]
                  ELSE [err |-> "", w |-> f]

\* ArtifactWriter::finalize. flush_ok, rename_ok, remove_ok: what the file
\* system answers to flush, rename and remove_file (a flush has nothing to
\* fail on when the buffer is empty).
Finalize(w, name, flush_ok, rename_ok, remove_ok) ==
    IF ~flush_ok /\ w.buf # <<>> THEN [err |-> "flush", w |-> w]
    ELSE LET f == Flushed(w)
         IN  IF name.some
             THEN IF f.storage = "FileDir" /\ f.files[name.val] = "absent" /\ f.tmp_file
                  THEN IF rename_ok /\ f.files.tmp # "absent"
                       THEN [ err |-> "",
                              w |-> [f EXCEPT !.files[name.val] = f.files.tmp,
                                              !.files.tmp = "absent"] ]
                       ELSE [err |-> "rename", w |-> f]
                  ELSE [err |-> "", w |-> f]
             ELSE IF f.storage = "SingleFile" /\ f.files.target = "writer"
                  THEN IF remove_ok
                       THEN [err |-> "", w |-> [f EXCEPT !.files.target = "absent"]]
                       ELSE [err |-> "remove", w |-> f]
                  ELSE [err |-> "", w |-> f]

\* Drop of a writer whose TempFile leaves its file behind.
DropKeepsTemp(w, flush_ok) ==
    LET f == IF flush_ok THEN Flushed(w) ELSE w
    IN  [f EXCEPT !.alive = FALSE]

\* Drop of the writer: the BufWriter flushes what it can, and the TempFile
\* removes the file at its path.
Drop(w, flush_ok) ==
    LET f == IF flush_ok THEN Flushed(w) ELSE w
    IN  [f EXCEPT !.alive = FALSE,
                  !.files.tmp = IF f.tmp_file THEN "absent" ELSE @]

AwCanCall == aw.alive /\ Len(aw.trace) < MaxWriterCalls

\* A writer that ArtifactWriter::new has returned.
AwInit ==
    /\ MgrNew
    /\ MergeIdle
    /\ ctx.fs_version = 6
    /\ BlobIdle
    /\ BootIdle /\ ReaderIdle /\ PureIdle /\ FinalizingIdle
    /\ \/ \E n_entry \in {"absent", "other"} : aw = NewFileDir(n_entry)
       \/ \E fifo \in BOOLEAN : aw = NewSingleFile(fifo)

AwWrite ==
    /\ AwCanCall
    /\ \E how \in {"buffer", "flush_buffer", "direct", "fail"}, n \in 1..Len(Payload) :
          /\ how # "direct" => n = Len(Payload)
          /\ LET r == Write(aw, Payload, how, n)
             IN  aw' = AwCalled(r.w, "write", NoneStr, r.err)
    /\ UNCHANGED << coreVars, bootstrap_ctx, reader, pure, finalizing >>

\* write_tar_header: write_all of the header, in one write or failing before
\* any byte is accepted.
AwWriteTarHeader ==
    /\ AwCanCall
    /\ \E how \in {"buffer", "fail"} :
          LET r == Write(aw, TarHeader, how, TarHeaderLen)
          IN  aw' = AwCalled(r.w, "write_tar_header", NoneStr, r.err)
    /\ UNCHANGED << coreVars, bootstrap_ctx, reader, pure, finalizing >>

\* impl Write for ArtifactWriter, flush
AwFlush ==
    /\ AwCanCall
    /\ \/ aw' = AwCalled(Flushed(aw), "flush", NoneStr, "")
       \/ aw.buf # <<>> /\ aw' = AwCalled(aw, "flush", NoneStr, "io")
    /\ UNCHANGED << coreVars, bootstrap_ctx, reader, pure, finalizing >>

\* impl Seek for ArtifactFileWriter: BufWriter::seek to the start of the
\* file, after a flush of the buffer.
AwSeek ==
    /\ AwCanCall
    /\ \/ aw' = AwCalled([Flushed(aw) EXCEPT !.cursor = 0], "seek", NoneStr, "")
       \/ aw' = AwCalled(aw, "seek", NoneStr, "io")
    /\ UNCHANGED << coreVars, bootstrap_ctx, reader, pure, finalizing >>

AwFinalize ==
    /\ AwCanCall
    /\ \E name \in FinalNames, flush_ok \in BOOLEAN, rename_ok \in BOOLEAN,
          remove_ok \in BOOLEAN :
          LET r == Finalize(aw, name, flush_ok, rename_ok, remove_ok)
          IN  aw' = AwCalled(r.w, "finalize", name, r.err)
    /\ UNCHANGED << coreVars, bootstrap_ctx, reader, pure, finalizing >>

AwDrop ==
    /\ aw # <<>>
    /\ aw.alive
    /\ \E flush_ok \in BOOLEAN : aw' = AwCalled(Drop(aw, flush_ok), "drop", NoneStr, "")
    /\ UNCHANGED << coreVars, bootstrap_ctx, reader, pure, finalizing >>

AwNext ==
    \/ AwWrite
    \/ AwWriteTarHeader
    \/ AwFlush
    \/ AwSeek
    \/ AwFinalize
    \/ AwDrop

\* The specification of one ArtifactWriter from its construction to its drop.
SpecWriter == AwInit /\ [][AwNext]_vars

\* ----------------------------------------- two writers inside finalize
\* Two ArtifactWriters with FileDir storage on one directory, each called
\* with finalize(Some(name)) by its own thread or process. The steps of one
\* finalize are the system calls it makes, and the steps of the two
\* interleave. finalizing.dir: the entries of the directory, each absent,
\* another file ("other"), or the file of writer 1 or 2 (its bytes);
\* finalizing.w[i]: the name writer i is finalized with, where it is in
\* finalize and what finalize returned; finalizing.renames: the writers
\* whose rename went through, in that order.
Writers == {1, 2}
TmpOf(i) == IF i = 1 THEN "tmp1" ELSE "tmp2"
FileOf(i) == IF i = 1 THEN "w1" ELSE "w2"

\* Writer i of the two has gone from at to the next position, returning ret
\* ("" while finalize has not returned).
FinalizingAt(i, at) == finalizing.w[i].pc = at
FinalizingStep(i, to, ret, dir, renames) ==
    finalizing' = [ finalizing EXCEPT !.w[i].pc = to, !.w[i].ret = ret,
                                      !.dir = dir, !.renames = renames ]

\* Both writers constructed by ArtifactWriter::new, each with its temp file
\* in the directory, and about to be finalized: both with N, or the second
\* with M; dir/N is absent or another file.
FinalizingInit ==
    /\ MgrNew
    /\ MergeIdle
    /\ ctx.fs_version = 6
    /\ BlobIdle
    /\ AwIdle /\ BootIdle /\ ReaderIdle /\ PureIdle
    /\ \E n_entry \in {"absent", "other"}, name2 \in {"N", "M"} :
          finalizing =
              [ dir |-> [tmp1 |-> "w1", tmp2 |-> "w2", N |-> n_entry, M |-> "absent"],
                w |-> << [name |-> "N", pc |-> "flush", ret |-> ""],
                         [name |-> name2, pc |-> "flush", ret |-> ""] >>,
                renames |-> <<>> ]

\* self.file.flush()?: the buffered bytes reach the temp file, or finalize
\* returns the error.
FinalizingFlush ==
    /\ \E i \in Writers :
          /\ FinalizingAt(i, "flush")
          /\ \/ FinalizingStep(i, "exists", "", finalizing.dir, finalizing.renames)
             \/ FinalizingStep(i, "done", "flush", finalizing.dir, finalizing.renames)
    /\ UNCHANGED << coreVars, aw, bootstrap_ctx, reader, pure >>

\* if !path.exists(): finalize goes on to the rename when nothing is at
\* dir/name, and returns Ok when something is.
FinalizingExists ==
    /\ \E i \in Writers :
          /\ FinalizingAt(i, "exists")
          /\ IF finalizing.dir[finalizing.w[i].name] = "absent"
             THEN FinalizingStep(i, "rename", "", finalizing.dir, finalizing.renames)
             ELSE FinalizingStep(i, "done", "Ok", finalizing.dir, finalizing.renames)
    /\ UNCHANGED << coreVars, aw, bootstrap_ctx, reader, pure >>

\* rename(tmp_file.as_path(), &path): the temp file takes the place of
\* whatever is at dir/name by then, or the rename fails and finalize returns
\* the error.
FinalizingRename ==
    /\ \E i \in Writers :
          /\ FinalizingAt(i, "rename")
          /\ \/ FinalizingStep(i, "done", "Ok",
                     [finalizing.dir EXCEPT ![finalizing.w[i].name] = finalizing.dir[TmpOf(i)],
                                            ![TmpOf(i)] = "absent"],
                     Append(finalizing.renames, i))
             \/ FinalizingStep(i, "done", "rename", finalizing.dir, finalizing.renames)
    /\ UNCHANGED << coreVars, aw, bootstrap_ctx, reader, pure >>

\* Drop of a writer after its finalize returned: the TempFile removes what is
\* at the path of the temp file.
FinalizingDrop ==
    /\ \E i \in Writers :
          /\ FinalizingAt(i, "done")
          /\ FinalizingStep(i, "dropped", finalizing.w[i].ret,
                            [finalizing.dir EXCEPT ![TmpOf(i)] = "absent"],
                            finalizing.renames)
    /\ UNCHANGED << coreVars, aw, bootstrap_ctx, reader, pure >>

FinalizingNext ==
    \/ FinalizingFlush
    \/ FinalizingExists
    \/ FinalizingRename
    \/ FinalizingDrop

\* The specification of two writers finalized on one directory, their steps
\* interleaved in every way.
SpecFinalizing == FinalizingInit /\ [][FinalizingNext]_vars

\* ========================================================= BootstrapContext
\* Calls made on the bootstrap context in one behaviour.
MaxBootCalls == 4
EROFS_BLOCK_SIZE == 4096
EROFS_INODE_SLOT_SIZE == 32

div_round_up(n, d) == (n + d - 1) \div d
round_down_4k(x) == x - (x % 4096)

\* Indices of v6_available_blocks.
SlotIdx == 0..((EROFS_BLOCK_SIZE \div EROFS_INODE_SLOT_SIZE) - 1)

\* Offsets handed to append_available_block: a block boundary, and offsets
\* that leave 3996, 2048, 96 and 16 bytes of their block, and 3996 bytes of
\* a further block.
AppendOffsets == {4096, 4196, 10240, 12192, 20464, 24676}
\* Sizes asked of allocate_available_block.
AllocSizes == {0, 1, 33, 96, 4065, 4095, 4096}

\* Alignments asked of align_offset.
AlignSizes == {3000, 4096}

\* BootstrapContext::new: the offset behind the first block, and one empty
\* queue per slot count.
BootNew ==
    [ offset |-> EROFS_BLOCK_SIZE,
      v6_available_blocks |-> [i \in SlotIdx |-> <<>>],
      registered |-> {},
      trace |-> <<>> ]

\* align_offset rounding the offset down.
AlignOffsetDown(offset, align_size) ==
    IF offset % align_size > 0
    THEN (offset \div align_size) * align_size
    ELSE offset

\* BootstrapContext::align_offset: the offset it leaves.
AlignOffset(offset, align_size) ==
    IF offset % align_size > 0
    THEN div_round_up(offset, align_size) * align_size
    ELSE offset

\* BootstrapContext::append_available_block on the queues q
AppendAvailableBlock(q, offset) ==
    IF offset % EROFS_BLOCK_SIZE # 0
    THEN LET avail == EROFS_BLOCK_SIZE - (offset % EROFS_BLOCK_SIZE)
             idx == avail \div EROFS_INODE_SLOT_SIZE
         IN  [q EXCEPT ![idx] = Append(@, round_down_4k(offset))]
    ELSE q

\* allocate_available_block dropping what is left of the block.
AllocateAvailableBlockNoRequeue(q, size) ==
    IF size >= EROFS_BLOCK_SIZE THEN [ret |-> 0, q |-> q]
    ELSE LET min_idx == div_round_up(size, EROFS_INODE_SLOT_SIZE)
             max_idx == div_round_up(EROFS_BLOCK_SIZE, EROFS_INODE_SLOT_SIZE)
             found == {i \in min_idx..(max_idx - 1) : q[i] # <<>>}
         IN  IF found = {} THEN [ret |-> 0, q |-> q]
             ELSE LET idx == CHOOSE i \in found : \A j \in found : i <= j
                  IN  [ ret |-> Head(q[idx]) + EROFS_BLOCK_SIZE
                                    - idx * EROFS_INODE_SLOT_SIZE,
                        q |-> [q EXCEPT ![idx] = Tail(@)] ]

\* allocate_available_block putting the block back as it found it.
AllocateAvailableBlockNoAdvance(q, size) ==
    IF size >= EROFS_BLOCK_SIZE THEN [ret |-> 0, q |-> q]
    ELSE LET min_idx == div_round_up(size, EROFS_INODE_SLOT_SIZE)
             max_idx == div_round_up(EROFS_BLOCK_SIZE, EROFS_INODE_SLOT_SIZE)
             found == {i \in min_idx..(max_idx - 1) : q[i] # <<>>}
         IN  IF found = {} THEN [ret |-> 0, q |-> q]
             ELSE LET idx == CHOOSE i \in found : \A j \in found : i <= j
                      offset == Head(q[idx]) + EROFS_BLOCK_SIZE
                                    - idx * EROFS_INODE_SLOT_SIZE
                  IN  [ ret |-> offset,
                        q |-> AppendAvailableBlock([q EXCEPT ![idx] = Tail(@)], offset) ]

\* allocate_available_block taking the newest block of the queue.
AllocateAvailableBlockNewest(q, size) ==
    IF size >= EROFS_BLOCK_SIZE THEN [ret |-> 0, q |-> q]
    ELSE LET min_idx == div_round_up(size, EROFS_INODE_SLOT_SIZE)
             max_idx == div_round_up(EROFS_BLOCK_SIZE, EROFS_INODE_SLOT_SIZE)
             found == {i \in min_idx..(max_idx - 1) : q[i] # <<>>}
         IN  IF found = {} THEN [ret |-> 0, q |-> q]
             ELSE LET idx == CHOOSE i \in found : \A j \in found : i <= j
                      offset == q[idx][Len(q[idx])] + EROFS_BLOCK_SIZE
                                    - idx * EROFS_INODE_SLOT_SIZE
                  IN  [ ret |-> offset,
                        q |-> AppendAvailableBlock(
                                  [q EXCEPT ![idx] = SubSeq(@, 1, Len(@) - 1)],
                                  offset + min_idx * EROFS_INODE_SLOT_SIZE) ]

\* allocate_available_block reading the front of the queue without popping it.
AllocateAvailableBlockNoPop(q, size) ==
    IF size >= EROFS_BLOCK_SIZE THEN [ret |-> 0, q |-> q]
    ELSE LET min_idx == div_round_up(size, EROFS_INODE_SLOT_SIZE)
             max_idx == div_round_up(EROFS_BLOCK_SIZE, EROFS_INODE_SLOT_SIZE)
             found == {i \in min_idx..(max_idx - 1) : q[i] # <<>>}
         IN  IF found = {} THEN [ret |-> 0, q |-> q]
             ELSE LET idx == CHOOSE i \in found : \A j \in found : i <= j
                      offset == Head(q[idx]) + EROFS_BLOCK_SIZE
                                    - idx * EROFS_INODE_SLOT_SIZE
                  IN  [ ret |-> offset,
                        q |-> AppendAvailableBlock(
                                  q, offset + min_idx * EROFS_INODE_SLOT_SIZE) ]

\* BootstrapContext::allocate_available_block on the queues q: the offset
\* returned and the queues left.
AllocateAvailableBlock(q, size) ==
    IF size >= EROFS_BLOCK_SIZE THEN [ret |-> 0, q |-> q]
    ELSE LET min_idx == div_round_up(size, EROFS_INODE_SLOT_SIZE)
             max_idx == div_round_up(EROFS_BLOCK_SIZE, EROFS_INODE_SLOT_SIZE)
             found == {i \in min_idx..(max_idx - 1) : q[i] # <<>>}
         IN  IF found = {} THEN [ret |-> 0, q |-> q]
             ELSE LET idx == CHOOSE i \in found : \A j \in found : i <= j
                      offset == Head(q[idx]) + EROFS_BLOCK_SIZE
                                    - idx * EROFS_INODE_SLOT_SIZE
                  IN  [ ret |-> offset,
                        q |-> AppendAvailableBlock(
                                  [q EXCEPT ![idx] = Tail(@)],
                                  offset + min_idx * EROFS_INODE_SLOT_SIZE) ]

BootCanCall == Len(bootstrap_ctx.trace) < MaxBootCalls
BootCalled(b, op, arg, ret) ==
    [b EXCEPT !.trace = Append(@, [op |-> op, arg |-> arg, ret |-> ret])]

\* A bootstrap context that BootstrapContext::new has returned.
BootInit ==
    /\ MgrNew
    /\ MergeIdle
    /\ ctx.fs_version = 6
    /\ BlobIdle
    /\ AwIdle /\ ReaderIdle /\ PureIdle /\ FinalizingIdle
    /\ bootstrap_ctx = BootNew

BootAppendAvailableBlock ==
    /\ BootCanCall
    /\ \E offset \in AppendOffsets :
          bootstrap_ctx' =
              BootCalled(
                  [bootstrap_ctx EXCEPT
                     !.v6_available_blocks = AppendAvailableBlock(@, offset),
                     !.registered = IF offset % EROFS_BLOCK_SIZE # 0
                                    THEN @ \cup {round_down_4k(offset)} ELSE @],
                  "append_available_block", offset, 0)
    /\ UNCHANGED << coreVars, aw, reader, pure, finalizing >>

BootAllocateAvailableBlock ==
    /\ BootCanCall
    /\ \E size \in AllocSizes :
          LET r == AllocateAvailableBlock(bootstrap_ctx.v6_available_blocks, size)
          IN  bootstrap_ctx' =
                  BootCalled([bootstrap_ctx EXCEPT !.v6_available_blocks = r.q],
                             "allocate_available_block", size, r.ret)
    /\ UNCHANGED << coreVars, aw, reader, pure, finalizing >>

BootAlignOffset ==
    /\ BootCanCall
    /\ \E align_size \in AlignSizes :
          bootstrap_ctx' =
              BootCalled(
                  [bootstrap_ctx EXCEPT !.offset = AlignOffset(@, align_size)],
                  "align_offset", align_size, 0)
    /\ UNCHANGED << coreVars, aw, reader, pure, finalizing >>

BootNext ==
    \/ BootAppendAvailableBlock
    \/ BootAllocateAvailableBlock
    \/ BootAlignOffset

\* The specification of the available-block queues of a BootstrapContext.
SpecBoot == BootInit /\ [][BootNext]_vars

\* =============================================================== BlobReader
\* BlobReader::read, storage/src/backend/mod.rs lines 106-135, one step of the
\* model for each turn of its loop. The reader's try_read is the environment:
\* each call of it returns Ok with a size or one of two errors.

\* The largest value of retry_limit(), a u8.
U8Max == 255

\* ProxyConfig::default(), lines 54-63.
ProxyConfigDefault ==
    [ url |-> "",
      ping_url |-> "",
      fallback |-> TRUE,
      check_interval |-> 5 ]

\* A default CommonConfig that allows one retry.
CommonConfigDefaultOneRetry ==
    [ proxy |-> ProxyConfigDefault,
      timeout |-> 5,
      connect_timeout |-> 5,
      retry_limit |-> 1 ]

\* CommonConfig::default(), lines 75-84.
CommonConfigDefault ==
    [ proxy |-> ProxyConfigDefault,
      timeout |-> 5,
      connect_timeout |-> 5,
      retry_limit |-> 0 ]

\* The values of retry_limit() looked at: that of the trait's default method
\* and of a default configuration, small ones and the largest two.
RetryLimits ==
    {0, 1, 2, 3, U8Max - 1, U8Max} \cup {CommonConfigDefault.retry_limit}

\* What a call of try_read returns.
TryReadResults ==
    { [ok |-> TRUE, val |-> n] : n \in {0, 4} }
        \cup { [ok |-> FALSE, val |-> e] : e \in {100, 101} }

NoResult == <<>>

\* read has taken retry_limit() into retry_count (line 107) and is about to
\* enter the loop. attempts, first_ok and last record the calls of try_read:
\* how many, the first Ok among them and the latest result.
ReadEntered(limit) ==
    [ retry_limit |-> limit,
      retry_count |-> limit,
      pc |-> "loop",
      ret |-> NoResult,
      error_holder |-> NoResult,
      attempts |-> 0,
      first_ok |-> NoResult,
      last |-> NoResult ]

\* The reader with one more call of try_read, which returned o, on record.
TryRead(r, o) ==
    [r EXCEPT !.attempts = @ + 1,
              !.last = <<o>>,
              !.first_ok = IF o.ok /\ @ = NoResult THEN <<o>> ELSE @]

\* A loop body that takes one more turn when retry_count is already 0.
ReadTurnExtraTry(r, o) ==
    IF o.ok THEN [r EXCEPT !.pc = "done", !.ret = <<o>>]
    ELSE IF r.retry_count >= 0
    THEN [r EXCEPT !.retry_count = @ - 1]
    ELSE [r EXCEPT !.pc = "done", !.ret = <<o>>, !.error_holder = <<o.val>>]

\* A loop body that goes on after a successful try_read while retries are left.
ReadTurnKeepsGoing(r, o) ==
    IF r.retry_count > 0
    THEN [r EXCEPT !.retry_count = @ - 1]
    ELSE IF o.ok THEN [r EXCEPT !.pc = "done", !.ret = <<o>>]
    ELSE [r EXCEPT !.pc = "done", !.ret = <<o>>, !.error_holder = <<o.val>>]

\* One turn of the loop, lines 111-133, after try_read returned o: Ok is
\* returned; an error is retried while retry_count > 0, else it is pushed to
\* ERROR_HOLDER and returned.
ReadTurn(r, o) ==
    IF o.ok THEN [r EXCEPT !.pc = "done", !.ret = <<o>>]
    ELSE IF r.retry_count > 0
    THEN [r EXCEPT !.retry_count = @ - 1]
    ELSE [r EXCEPT !.pc = "done", !.ret = <<o>>, !.error_holder = <<o.val>>]

\* A call of read on a reader with some retry_limit().
ReadInit ==
    /\ MgrNew
    /\ MergeIdle
    /\ ctx.fs_version = 6
    /\ BlobIdle
    /\ AwIdle /\ BootIdle /\ PureIdle /\ FinalizingIdle
    /\ \E limit \in RetryLimits : reader = ReadEntered(limit)

\* The loop calls try_read and acts on what it returns.
ReadTryRead ==
    /\ reader.pc = "loop"
    /\ \E o \in TryReadResults : reader' = ReadTurn(TryRead(reader, o), o)
    /\ UNCHANGED << coreVars, aw, bootstrap_ctx, pure, finalizing >>

ReadNext ==
    \/ ReadTryRead

\* The specification of one call of BlobReader::read.
SpecRead == ReadInit /\ [][ReadNext]_vars

\* The same with the thread of the call running on: a turn of the loop that
\* can be taken is taken.
SpecReadLive == SpecRead /\ WF_vars(ReadTryRead)

\* ========================================================= pure functions
\* BlobInfo values handed to BlobContext::from where the inlined-meta fixup
\* matters: the features INLINED_META and ZRAN; everything the BlobInfo holds
\* is marked "info".
FixupBlobs == [inlined_meta : BOOLEAN, zran : BOOLEAN]
ChunkSources == {"Build", "Parent", "Dict"}
\* What each step of the fixup meets: Ok or not, in the order of the code
\* (hex: hex::decode of the id gives 32 bytes).
FixupEnvs ==
    [ backend_config : BOOLEAN, new_backend : BOOLEAN, rafs_blob_id : BOOLEAN,
      get_reader : BOOLEAN, blob_size : BOOLEAN, hex : BOOLEAN, toc : BOOLEAN ]

\* The values BlobContext::from starts from: those of the BlobInfo.
FromInfo(blob) ==
    [ err |-> "",
      blob_id |-> "raw_blob_id",
      compressed_blob_size |-> "info",
      rafs_blob_digest |-> "info",
      rafs_blob_size |-> "info",
      toc_digest |-> "info",
      toc_size |-> "info",
      inlined_meta |-> blob.inlined_meta ]

\* The ToC entry list read from the blob, if that works.
ReadToc(c, env) ==
    IF env.toc THEN [c EXCEPT !.toc_digest = "toc", !.toc_size = "toc"] ELSE c

\* BlobContext::from, lines 466-526: the values that go into the context, or
\* the error of the step that made it return. Values marked "backend" and
\* "toc" were read again through the backend.
FromFixup(blob, chunk_source, env) ==
    LET c == FromInfo(blob)
        failed(e) == [c EXCEPT !.err = e]
    IN  IF ~(blob.inlined_meta /\ chunk_source \in {"Dict", "Parent"}) THEN c
        ELSE IF ~env.backend_config THEN failed("backend_config")
        ELSE IF ~env.new_backend THEN failed("new_backend")
        ELSE IF blob.zran
        THEN IF ~env.rafs_blob_id THEN [c EXCEPT !.inlined_meta = FALSE]
             ELSE IF ~env.get_reader THEN failed("get_reader")
             ELSE IF ~env.blob_size THEN failed("blob_size")
             ELSE LET d == IF env.hex
                           THEN [c EXCEPT !.rafs_blob_digest = "backend",
                                          !.rafs_blob_size = "backend"]
                           ELSE c
                  IN  [ReadToc(d, env) EXCEPT !.inlined_meta = FALSE]
        ELSE IF ~env.get_reader THEN failed("get_reader")
        ELSE IF ~env.blob_size THEN failed("blob_size")
        ELSE [ ReadToc([c EXCEPT !.blob_id = "blob_id",
                                 !.compressed_blob_size = "backend"], env)
               EXCEPT !.inlined_meta = FALSE ]

\* The calls of BlobContext::from looked at.
FromCalls ==
    { [fn |-> "BlobContext::from", arg |-> [blob |-> b, chunk_source |-> cs, env |-> e],
       ret |-> <<>>] : b \in FixupBlobs, cs \in ChunkSources, e \in FixupEnvs }

\* The variants of ConversionType, context.rs lines 50-63.
ConversionTypeVariants ==
    { "DirectoryToRafs", "DirectoryToStargz", "DirectoryToTargz",
      "EStargzToRafs", "EStargzToRef", "EStargzIndexToRef",
      "TargzToRafs", "TargzToStargz", "TargzToRef",
      "TarToRafs", "TarToStargz", "TarToRef" }

\* The match of ConversionType::from_str, lines 74-90, arm by arm.
FromStrArms ==
    << <<"dir-rafs", "DirectoryToRafs">>,
       <<"dir-stargz", "DirectoryToStargz">>,
       <<"dir-targz", "DirectoryToTargz">>,
       <<"estargz-rafs", "EStargzToRafs">>,
       <<"estargz-ref", "EStargzToRef">>,
       <<"estargztoc-ref", "EStargzIndexToRef">>,
       <<"targz-rafs", "TargzToRafs">>,
       <<"targz-stargz", "TargzToStargz">>,
       <<"targz-ref", "TargzToRef">>,
       <<"tar-rafs", "TarToRafs">>,
       <<"tar-stargz", "TarToStargz">>,
       <<"directory", "DirectoryToRafs">>,
       <<"stargz_index", "EStargzIndexToRef">> >>

\* ConversionType::from_str: the variant of the first arm that matches, or
\* the error of the last arm.
FromStr(s) ==
    LET hits == { i \in 1..Len(FromStrArms) : FromStrArms[i][1] = s }
    IN  IF hits = {} THEN [ok |-> FALSE, v |-> "invalid conversion type"]
        ELSE [ok |-> TRUE,
              v |-> FromStrArms[CHOOSE i \in hits : \A j \in hits : i <= j][2]]

\* Display for ConversionType, lines 96-109, arm by arm.
Display(v) ==
    CASE v = "DirectoryToRafs" -> "dir-rafs"
      [] v = "DirectoryToStargz" -> "dir-stargz"
      [] v = "DirectoryToTargz" -> "dir-targz"
      [] v = "EStargzToRafs" -> "estargz-rafs"
      [] v = "EStargzToRef" -> "estargz-ref"
      [] v = "EStargzIndexToRef" -> "estargztoc-ref"
      [] v = "TargzToRafs" -> "targz-rafs"
      [] v = "TargzToStargz" -> "targz-ref"
      [] v = "TargzToRef" -> "targz-ref"
      [] v = "TarToRafs" -> "tar-rafs"
      [] v = "TarToStargz" -> "tar-stargz"
      [] v = "TarToRef" -> "tar-ref"

\* The strings given to from_str: those of its arms, the display of every
\* variant, and two that are neither.
ConversionStrings ==
    { FromStrArms[i][1] : i \in 1..Len(FromStrArms) }
        \cup { Display(v) : v \in ConversionTypeVariants }
        \cup { "", "dir_rafs" }

\* The calls of from_str followed by to_string, and of to_string alone.
ConversionCalls ==
    { [fn |-> "ConversionType::from_str", arg |-> s, ret |-> <<>>] :
          s \in ConversionStrings }
        \cup { [fn |-> "ConversionType::to_string", arg |-> v, ret |-> <<>>] :
                   v \in ConversionTypeVariants }


\* A function is about to be called.
PureInit ==
    /\ MgrNew
    /\ MergeIdle
    /\ ctx.fs_version = 6
    /\ BlobIdle
    /\ AwIdle /\ BootIdle /\ ReaderIdle /\ FinalizingIdle
    /\ \/ pure \in FromCalls
       \/ pure \in ConversionCalls

PureBlobContextFrom ==
    /\ pure.fn = "BlobContext::from"
    /\ pure.ret = <<>>
    /\ pure' = [pure EXCEPT !.ret =
                   <<FromFixup(pure.arg.blob, pure.arg.chunk_source, pure.arg.env)>>]
    /\ UNCHANGED << coreVars, aw, bootstrap_ctx, reader, finalizing >>

\* from_str(s), and the to_string() of the variant when it parsed.
PureFromStr ==
    /\ pure.fn = "ConversionType::from_str"
    /\ pure.ret = <<>>
    /\ LET r == FromStr(pure.arg)
       IN  pure' = [pure EXCEPT !.ret =
                       <<[parsed |-> r,
                          shown |-> IF r.ok THEN Some(Display(r.v)) ELSE NoneStr]>>]
    /\ UNCHANGED << coreVars, aw, bootstrap_ctx, reader, finalizing >>

\* v.to_string().
PureToString ==
    /\ pure.fn = "ConversionType::to_string"
    /\ pure.ret = <<>>
    /\ pure' = [pure EXCEPT !.ret = <<Display(pure.arg)>>]
    /\ UNCHANGED << coreVars, aw, bootstrap_ctx, reader, finalizing >>

PureNext ==
    \/ PureBlobContextFrom
    \/ PureFromStr
    \/ PureToString

\* The specification of the functions called once on each of their inputs.
SpecPure == PureInit /\ [][PureNext]_vars

\* ================================================================ properties
\* The ids of a sequence of blob contexts or blob table entries, in order.
BlobIds(bs) == [i \in 1..Len(bs) |-> bs[i].blob_id]

\* Whether an id is one of the chunk dict bootstrap.
IsDictId(id) == id \in chunk_dict_blobs

\* No blob with a dictionary id sits right after a blob with another id, i.e.
\* every blob with a dictionary id is below every other blob.
DictFirst(bs) ==
    \A i \in 1..(Len(bs) - 1) : IsDictId(bs[i + 1].blob_id) => IsDictId(bs[i].blob_id)

\* The nodes of a sequence that are no whiteouts, in order.
NonWhiteouts(ns) == SelectSeq(ns, LAMBDA m : ~m.wh)

\* The nodes of the walk of rs, in walk order.
WalkOrder == [i \in 1..Len(rs.inodes) |-> WalkNode(rs.inodes[i], blob_idx_map, layer_idx)]

\* Number of blobs among the first k of a blob table whose id is not one of
\* the chunk dict.
OwnCount(table, k) ==
    Cardinality({i \in 1..k : table[i].id \notin chunk_dict_blobs})

\* ---------------------------------------------------------------------- C1
\* C1: when a layer's nodes have gone into the tree, every file the layer
\* holds is in the tree as a node of that layer whose chunks carry
\* blob_idx_map[original index], for the lowest layer (index 0) as for the others.
C1_EveryLayerRemapped ==
    pc = "layer_end" =>
        \A i \in 1..Len(rs.inodes) :
            ~rs.inodes[i].wh =>
                \E k \in 1..Len(tree.nodes) :
                    /\ tree.nodes[k].path = rs.inodes[i].path
                    /\ ~tree.nodes[k].wh
                    /\ tree.nodes[k].layer_idx = layer_idx
                    /\ tree.nodes[k].chunks =
                           RemapChunks(rs.inodes[i].chunks, blob_idx_map)

\* ---------------------------------------------------------------------- C2
\* C2 (as stated): in the blob table emitted with a chunk dict bootstrap, every
\* blob with a dictionary id is below every blob with another id, whatever the
\* order of the blobs in the layers' blob tables.
C2_DictFirstAlways ==
    (pc = "done" /\ chunk_dict_blobs # {}) => DictFirst(blob_table)

\* C2 (amended): the manager keeps its blobs in the order in which their final
\* ids are first met, and the emitted blob table lists them in that order; a
\* pass of the blob loop keeps the blobs with dictionary ids below the others
\* unless it adds a blob with a dictionary id after a blob with another id.
C2_FirstMetOrder ==
    [][ /\ (pc = "import" /\ pc' # "failed") =>
              /\ \/ blobs' = blobs
                 \/ /\ Len(blobs') = Len(blobs) + 1
                    /\ SubSeq(blobs', 1, Len(blobs)) = blobs
                    /\ blobs'[Len(blobs')].blob_id \notin Range(BlobIds(blobs))
              /\ ( /\ DictFirst(blobs)
                   /\ \/ blobs' = blobs
                      \/ ~IsDictId(blobs'[Len(blobs')].blob_id)
                      \/ \A i \in 1..Len(blobs) : IsDictId(blobs[i].blob_id) )
                 => DictFirst(blobs')
        /\ pc' = "done" => BlobIds(blob_table') = BlobIds(blobs')
      ]_vars

\* A merge with a chunk dict ended with dictionary blobs and own blobs in its
\* blob table, the dictionary blobs first.
C2_Witness ==
    /\ pc = "done"
    /\ chunk_dict_blobs # {}
    /\ DictFirst(blob_table)
    /\ \E i, j \in 1..Len(blob_table) :
          IsDictId(blob_table[i].blob_id) /\ ~IsDictId(blob_table[j].blob_id)

\* ---------------------------------------------------------------------- C3
\* C3: for a layer after the first, the nodes applied to the tree are the
\* layer's whiteouts followed by its other nodes, these in walk order, and the
\* tree is the result of applying them in that order; the layer index only
\* moves up by one, when a layer has been applied.
C3_WhiteoutsFirst ==
    [][ /\ (pc = "tree" /\ pc' = "layer_end" /\ tree.some) =>
              /\ Len(nodes') = Len(rs.inodes)
              /\ \E k \in 0..Len(nodes') :
                    \A i \in 1..Len(nodes') : nodes'[i].wh <=> i <= k
              /\ NonWhiteouts(nodes') = NonWhiteouts(WalkOrder)
              /\ Range(nodes') = Range(WalkOrder)
              /\ tree'.nodes = ApplyNodes(tree.nodes, nodes', 1)
        /\ layer_idx' # layer_idx => (pc = "layer_end" /\ layer_idx' = layer_idx + 1)
        /\ \A k \in 1..Len(tree'.nodes) : tree'.nodes[k].layer_idx <= layer_idx
      ]_vars

\* The second layer has been applied: two whiteouts went first, and the file
\* the lower layer had at a whited-out path is gone from the tree.
C3_Witness ==
    /\ pc = "layer_end"
    /\ layer_idx = 1
    /\ Len(nodes) = 4
    /\ nodes[1].wh /\ nodes[2].wh /\ ~nodes[3].wh /\ ~nodes[4].wh
    /\ ~\E k \in 1..Len(tree.nodes) :
          tree.nodes[k].path = "b" /\ ~tree.nodes[k].wh /\ tree.nodes[k].layer_idx = 0
    /\ \E k \in 1..Len(tree.nodes) :
          tree.nodes[k].path = "b" /\ ~tree.nodes[k].wh /\ tree.nodes[k].layer_idx = 1

\* ---------------------------------------------------------------------- C4
\* C4: the pass of the blob loop that meets a blob whose chunk size is not the
\* one of the first blob seen ends merge with an error, adds nothing to the
\* manager, and leaves no file at the target and no temp file.
C4_ChunkSizeMismatchFails ==
    [][ /\ (chunk_size.some /\ Len(blobs) > 0) => chunk_size.val = blobs[1].chunk_size
        /\ ( /\ pc = "import"
             /\ chunk_size.some
             /\ rs.blobs[blob_k + 1].chunk_size # chunk_size.val )
           => /\ pc' = "failed"
              /\ err' \in {"chunk_size", "blob_from"}
              /\ blobs' = blobs
              /\ target_file' = "absent"
              /\ tmp_file' = "absent"
              /\ blob_table' = <<>>
      ]_vars

\* The second layer brought a blob of another chunk size and merge failed on
\* it with nothing at the target.
C4_Witness ==
    /\ pc = "failed"
    /\ err = "chunk_size"
    /\ layer_idx = 1
    /\ Len(blobs) > 0
    /\ rs.blobs[blob_k + 1].chunk_size # blobs[1].chunk_size
    /\ target_file = "absent"

\* ---------------------------------------------------------------------- C5
\* C5: no entry of blob_idx_map is 256 or more, and no blob table of more than
\* 256 blobs is emitted.
C5_NoIndexBeyond255 ==
    /\ \A i \in 1..Len(blob_idx_map) : blob_idx_map[i] < MaxBlobs
    /\ pc = "done" => Len(blob_table) <= MaxBlobs

\* ---------------------------------------------------------------------- C6
\* C6 (as stated): when merge has returned an error, no file is at the target.
C6_NoFileOnError ==
    pc = "failed" => (target_file = "absent" /\ tmp_file = "absent")

\* C6 (amended): when merge has returned an error, no complete bootstrap is at
\* the target and no temp file is left; with a FileDir target no file is at
\* the target at all, and with a SingleFile target a file is at the target
\* (empty or partial) only if the error came from opening the output, from
\* Bootstrap::build or from Bootstrap::dump, once the file was created.
C6_NoFileUnlessSingleFile ==
    pc = "failed" =>
        /\ tmp_file = "absent"
        /\ target_file # "complete"
        /\ target_file # "absent" =>
              (target = "SingleFile" /\ err \in {"open_output", "build", "dump"})
        /\ target # "SingleFile" => target_file = "absent"

\* Merge failed in Bootstrap::build with a FileDir target: the temp file is gone.
C6_Witness ==
    /\ pc = "failed"
    /\ err = "build"
    /\ target = "FileDir"
    /\ tmp_file = "absent"
    /\ target_file = "absent"

\* ---------------------------------------------------------------------- C7
\* C7: once the argument checks are through, merge has failed, with nothing
\* loaded and nothing created, if and only if the source list is empty or a
\* given override array has a length other than the number of sources.
C7_ArgChecks ==
    LET n == Len(sources)
        bad == \/ n = 0
               \/ \E a \in {blob_digests, blob_sizes, blob_toc_digests, blob_toc_sizes} :
                     a.some /\ a.val # n
        arg_errs == {"empty_sources", "unmatched_len"}
    IN  /\ (pc # "start" /\ bad) =>
              /\ pc = "failed"
              /\ err \in arg_errs
              /\ chunk_dict_blobs = {} /\ config = None /\ rs = NoRs /\ blobs = <<>>
              /\ target_file = "absent" /\ tmp_file = "absent"
        /\ ~bad => err \notin arg_errs

\* Merge failed on a ToC size array of another length than the sources, all
\* other arrays matching.
C7_Witness ==
    /\ pc = "failed"
    /\ err = "unmatched_len"
    /\ Len(sources) > 0
    /\ blob_digests = Some(Len(sources))
    /\ blob_sizes = Some(Len(sources))
    /\ blob_toc_digests = Some(Len(sources))
    /\ blob_toc_sizes.some /\ blob_toc_sizes.val # Len(sources)

\* ---------------------------------------------------------------------- C8
\* C8: the blob loop never gets past a second blob of a layer whose id is not
\* in the chunk dict set, it raises that error on such a second blob only, and
\* a layer whose blobs are through the loop has at most one such blob.
C8_OneOwnBlobPerLayer ==
    /\ pc = "import" => OwnCount(rs.blobs, blob_k) <= 1
    /\ pc \in {"tree", "layer_end"} => OwnCount(rs.blobs, Len(rs.blobs)) <= 1
    /\ err = "multi_blob" =>
          /\ pc = "failed"
          /\ rs.blobs[blob_k + 1].id \notin chunk_dict_blobs
          /\ OwnCount(rs.blobs, blob_k + 1) = 2

\* A layer with a dictionary blob and one own blob went through the blob loop.
C8_Witness ==
    /\ pc = "tree"
    /\ Len(rs.blobs) = 2
    /\ OwnCount(rs.blobs, 2) = 1
    /\ \E i \in 1..2 : rs.blobs[i].id \in chunk_dict_blobs

\* ---------------------------------------------------------------------- C9
\* C9: when extend_from_blob_table(T) and then extend_from_chunk_dict have
\* returned Ok, every blob id of T and of the dictionary is the id of exactly
\* one blob of the manager, at an index of at most 255.
C9_TableAndDictOnce ==
    ( /\ Len(mgr_trace) >= 2
      /\ mgr_trace[Len(mgr_trace) - 1] = [op |-> "extend_from_blob_table", err |-> ""]
      /\ LastCall = [op |-> "extend_from_chunk_dict", err |-> ""] )
    => \A id \in {parent_table[i].id : i \in 1..Len(parent_table)} \cup Range(dict_blobs) :
          LET hits == MatchingIdx(blobs, id)
          IN  Len(hits) = 1 /\ hits[1] <= MaxBlobs - 1

\* --------------------------------------------------------------------- C10
\* C10: a call of extend_from_chunk_dict that returns Ok leaves every blob of
\* the dictionary with a real index at which the manager holds a blob of its
\* id; a dictionary blob whose id the manager held before the call gets the
\* index of the first blob of that id, the blobs held before keep their places,
\* and one blob is added for each dictionary id the manager did not hold.
C10_DictRealIdx ==
    [][ ( /\ Len(mgr_trace') = Len(mgr_trace) + 1
          /\ mgr_trace'[Len(mgr_trace')] = [op |-> "extend_from_chunk_dict", err |-> ""] )
        => /\ Len(real_blob_idx') = Len(dict_blobs)
           /\ \A i \in 1..Len(dict_blobs) :
                 /\ real_blob_idx'[i].some
                 /\ real_blob_idx'[i].val < Len(blobs')
                 /\ blobs'[real_blob_idx'[i].val + 1].blob_id = dict_blobs[i]
                 /\ dict_blobs[i] \in Range(BlobIds(blobs)) =>
                       /\ real_blob_idx'[i].val < Len(blobs)
                       /\ \A j \in 1..real_blob_idx'[i].val :
                             blobs[j].blob_id # dict_blobs[i]
           /\ SubSeq(blobs', 1, Len(blobs)) = blobs
           /\ Len(blobs') = Len(blobs) +
                 Cardinality(Range(dict_blobs) \ Range(BlobIds(blobs)))
      ]_vars

\* Parent table [A, B], then dictionary [B, C]: the blobs are [A, B, C], and
\* the dictionary maps B to 1 and C to 2.
C10_Witness ==
    /\ Len(mgr_trace) = 3
    /\ mgr_trace[2] = [op |-> "extend_from_blob_table", err |-> ""]
    /\ LastCall = [op |-> "extend_from_chunk_dict", err |-> ""]
    /\ [i \in 1..Len(parent_table) |-> parent_table[i].id] = <<"A", "B">>
    /\ dict_blobs = <<"B", "C">>
    /\ BlobIds(blobs) = <<"A", "B", "C">>
    /\ real_blob_idx = <<Some(1), Some(2)>>

\* --------------------------------------------------------------------- C11
\* The step is a call of op that returned e.
Returned(op, e) ==
    /\ Len(mgr_trace') = Len(mgr_trace) + 1
    /\ mgr_trace'[Len(mgr_trace')] = [op |-> op, err |-> e]

\* The blob contexts built from the blobs of a parent blob table.
ParentContexts(table) ==
    [i \in 1..Len(table) |-> BlobContextFrom(table[i], "Parent")]

\* C11: a call of extend_from_blob_table(P) that returns Ok on a manager with
\* blobs B and current blob index c leaves the blobs of P followed by B, both
\* in order, and the current blob index c + |P|, which designates the blob
\* that c designated.
C11_PrependAndShift ==
    [][ ( /\ Returned("extend_from_blob_table", "")
          /\ current_blob_index.some )
        => /\ blobs' = ParentContexts(parent_table') \o blobs
           /\ current_blob_index' =
                  Some(current_blob_index.val + Len(parent_table'))
           /\ current_blob_index.val < Len(blobs) =>
                  blobs'[current_blob_index'.val + 1] =
                      blobs[current_blob_index.val + 1]
      ]_vars

\* A blob was added, the current blob created, and the parent table [A, B]
\* prepended: the current blob index went from 1 to 3.
C11_Witness ==
    /\ Len(mgr_trace) = 3
    /\ mgr_trace[1] = [op |-> "add", err |-> ""]
    /\ mgr_trace[2] = [op |-> "get_or_create_current_blob", err |-> ""]
    /\ LastCall = [op |-> "extend_from_blob_table", err |-> ""]
    /\ [i \in 1..Len(parent_table) |-> parent_table[i].id] = <<"A", "B">>
    /\ Len(blobs) = 4
    /\ current_blob_index = Some(3)
    /\ blobs[4].chunk_source = "Build"
    /\ blobs[1].chunk_source = "Parent"

\* --------------------------------------------------------------------- C12
\* The blobs of parent blob table P are the first blobs of bs, in order.
ParentPrefix(bs, P) ==
    /\ Len(bs) >= Len(P)
    /\ SubSeq(bs, 1, Len(P)) = ParentContexts(P)

\* C12 as stated: once the blobs of the parent blob table P are the first
\* blobs of the manager, they stay the first blobs, in order, whatever is
\* called next (take_blob and a further extend_from_blob_table included).
C12_ParentPrefixForever ==
    [][ ParentPrefix(blobs, parent_table) => ParentPrefix(blobs', parent_table) ]_vars

\* C12, amended: once the blobs of the parent blob table P are the first
\* blobs of the manager, they stay the first blobs, in order, over every call
\* other than take_blob and a further extend_from_blob_table that returns
\* Ok (over add, get_or_create_current_blob, extend_from_chunk_dict,
\* set_chunk_dict, to_blob_table and every failed call).
C12_ParentPrefixKept ==
    [][ ( /\ ParentPrefix(blobs, parent_table)
          /\ ~(\E e \in {"", "panic"} : Returned("take_blob", e))
          /\ ~Returned("extend_from_blob_table", "") )
        => ParentPrefix(blobs', parent_table) ]_vars

\* The parent table [A, B] was prepended, then a blob was added and the
\* current blob created: A and B are still the first two of four blobs.
C12_Witness ==
    /\ Len(mgr_trace) = 3
    /\ mgr_trace[1] = [op |-> "extend_from_blob_table", err |-> ""]
    /\ mgr_trace[2] = [op |-> "add", err |-> ""]
    /\ LastCall = [op |-> "get_or_create_current_blob", err |-> ""]
    /\ [i \in 1..Len(parent_table) |-> parent_table[i].id] = <<"A", "B">>
    /\ Len(blobs) = 4
    /\ ParentPrefix(blobs, parent_table)
    /\ current_blob_index = Some(3)

C14_AtMost256Blobs ==
    /\ Len(blobs) <= MaxBlobs
    /\ current_blob_index.some => current_blob_index.val <= MaxBlobs - 1

\* --------------------------------------------------------------------- C15
\* C15: the current blob index, when set, is smaller than the number of
\* blobs, and get_or_create_current_blob never indexes beyond the blobs.
C15_CurrentIndexesBlobs ==
    /\ current_blob_index.some => current_blob_index.val < Len(blobs)
    /\ \A k \in 1..Len(mgr_trace) :
          mgr_trace[k] # [op |-> "get_or_create_current_blob", err |-> "panic"]

\* --------------------------------------------------------------------- C16
\* get_or_create_current_blob has returned Ok, and no parent blob table was
\* imported and no blob taken out since it last did.
SameCurrentSinceGet ==
    \E k \in 1..Len(mgr_trace) :
       /\ mgr_trace[k] = [op |-> "get_or_create_current_blob", err |-> ""]
       /\ \A j \in (k + 1)..Len(mgr_trace) :
             mgr_trace[j] \notin { [op |-> "extend_from_blob_table", err |-> ""],
                                   [op |-> "take_blob", err |-> ""] }

BlobReturned(op) ==
    /\ Len(bc_trace') = Len(bc_trace) + 1
    /\ bc_trace'[Len(bc_trace')].op = op

\* The calls of alloc_chunk_index in the trace that returned Ok.
AllocsOk(trace) ==
    Cardinality({k \in 1..Len(trace) :
                    trace[k].op = "alloc_chunk_index" /\ trace[k].err = ""})

\* C17: on a BlobContext that BlobContext::new made, a call of
\* alloc_chunk_index fails exactly when chunk_count is 0xff_ffff and then
\* leaves it unchanged; otherwise it returns chunk_count, which is the number
\* of calls that succeeded before (0, 1, 2, ...), and increments it. So the
\* call after 0xff_fffe successes returns 0xff_fffe and the next one fails.
C17_AllocChunkIndex ==
    [][ ( BlobReturned("alloc_chunk_index") /\ bc0.origin = "new" )
        => LET call == bc_trace'[Len(bc_trace')]
               before == bc0.chunk_count + AllocsOk(bc_trace)
           IN  /\ bc.chunk_count = before
               /\ (call.err # "") <=> (bc.chunk_count = ChunkIndexLimit)
               /\ call.err = "" =>
                     /\ call.index = before
                     /\ bc'.chunk_count = bc.chunk_count + 1
                     /\ bc'.chunk_count <= ChunkIndexLimit
               /\ call.err # "" => bc' = bc
               /\ before = ChunkIndexLimit - 1 =>
                     call.err = "" /\ call.index = 16777214
      ]_vars

\* On a context two chunks short of the limit, three calls: the first two
\* return 0xff_fffd and 0xff_fffe, the third fails with chunk_count still
\* 0xff_ffff.
C17_Witness ==
    /\ bc0.origin = "new"
    /\ Len(bc_trace) = 3
    /\ \A k \in 1..3 : bc_trace[k].op = "alloc_chunk_index"
    /\ bc_trace[1].err = "" /\ bc_trace[1].index = ChunkIndexLimit - 2
    /\ bc_trace[2].err = "" /\ bc_trace[2].index = ChunkIndexLimit - 1
    /\ bc_trace[3].err = "limit"
    /\ bc.chunk_count = ChunkIndexLimit

\* --------------------------------------------------------------------- C18
\* The calls so far are alloc_chunk_index calls that returned Ok, each
\* followed by add_chunk_meta_info for the chunk of the index allocated, on a
\* context that had no chunk when it was made by BlobContext::new.
PairsOnly ==
    /\ bc0.origin = "new" => bc0.chunk_count = 0
    /\ \A k \in 1..Len(bc_trace) :
          IF k % 2 = 1
          THEN bc_trace[k].op = "alloc_chunk_index" /\ bc_trace[k].err = ""
          ELSE /\ bc_trace[k].op = "add_chunk_meta_info"
               /\ bc_trace[k].index = bc_trace[k - 1].index

\* blob_meta_info.len() == blob_chunk_digest.len() == chunk_count
LensEqualCount(b) ==
    /\ Len(b.blob_meta_info) = b.chunk_count
    /\ Len(b.blob_chunk_digest) = b.chunk_count

\* C18 as stated: on any BlobContext, after every pair of an
\* alloc_chunk_index call and the add_chunk_meta_info call for the chunk of
\* the allocated index, the meta array, the digest array and chunk_count
\* agree.
C18_LensEqualCountAny ==
    (PairsOnly /\ Len(bc_trace) % 2 = 0 /\ bc_trace # <<>>) => LensEqualCount(bc)

\* C18, amended: the same on a BlobContext that BlobContext::new made and
\* that had meta info enabled before its first chunk; every such
\* add_chunk_meta_info returns Ok, and its entry and digest are those of the
\* chunk allocated.
C18_LensEqualCountEnabled ==
    (PairsOnly /\ bc0.origin = "new" /\ bc0.blob_meta_info_enabled) =>
        /\ \A k \in 1..Len(bc_trace) : bc_trace[k].err = ""
        /\ Len(bc_trace) % 2 = 0 =>
              /\ LensEqualCount(bc)
              /\ \A i \in 1..bc.chunk_count :
                    /\ bc.blob_meta_info[i].index = i - 1
                    /\ bc.blob_chunk_digest[i] = i - 1

\* Two chunks were allocated and added on a new context with meta info
\* enabled: both arrays hold two entries.
C18_Witness ==
    /\ PairsOnly
    /\ bc0.origin = "new"
    /\ bc0.blob_meta_info_enabled
    /\ Len(bc_trace) = 4
    /\ bc.chunk_count = 2
    /\ Len(bc.blob_meta_info) = 2
    /\ Len(bc.blob_chunk_digest) = 2

\* --------------------------------------------------------------------- C19
\* C19: the blob table that to_blob_table returns has an entry for a blob
\* only if the blob's compressed_blob_size is greater than 0: its entries
\* are those of the blobs with content, in order.
C19_EmptyBlobsAbsent ==
    [][ Returned("to_blob_table", "")
        => LET content == SelectSeq(blobs, LAMBDA b : b.compressed_blob_size # U64(0, 0))
           IN  /\ \A i \in 1..Len(mgr_ret'.table) :
                     mgr_ret'.table[i].compressed_size # U64(0, 0)
               /\ Len(mgr_ret'.table) = Len(content)
      ]_vars

\* --------------------------------------------------------------------- C20
\* The blob has content: compressed_blob_size > 0, or the conversion is
\* EStargzIndexToRef and the blob id is not empty.
HasContent(b, conv) ==
    b.compressed_blob_size > 0 \/ (conv = "EStargzIndexToRef" /\ b.blob_id # "")

\* C20: set_blob_prefetch_size leaves blob_prefetch_size as it is when the
\* policy is Blob and the blob has content, and sets it to 0 in every other
\* combination of policy and blob state; it changes nothing else.
C20_ZeroUnlessBlobWithContent ==
    [][ BlobReturned("set_blob_prefetch_size")
        => LET call == bc_trace'[Len(bc_trace')]
           IN  /\ (call.policy = "Blob" /\ HasContent(bc, call.conv)) => bc' = bc
               /\ ~(call.policy = "Blob" /\ HasContent(bc, call.conv)) =>
                     bc' = [bc EXCEPT !.blob_prefetch_size = 0]
               /\ bc' = SetBlobPrefetchSizeUnless(bc, call.conv, call.policy)
      ]_vars

\* --------------------------------------------------------------------- C21
\* BlobContext::from has returned r for blob, chunk source and environment a.
FromReturned == pure # <<>> /\ pure.fn = "BlobContext::from" /\ pure.ret # <<>>

\* The fixup steps that were made and failed, for a call that makes the fixup.
FixupStepFailed(a) ==
    LET e == a.env
        reading == /\ e.backend_config /\ e.new_backend
                   /\ (a.blob.zran => e.rafs_blob_id)
    IN  \/ ~e.backend_config
        \/ e.backend_config /\ ~e.new_backend
        \/ e.backend_config /\ e.new_backend /\ a.blob.zran /\ ~e.rafs_blob_id
        \/ reading /\ ~e.get_reader
        \/ reading /\ e.get_reader /\ ~e.blob_size
        \/ reading /\ e.get_reader /\ e.blob_size /\ ~e.toc

\* C21: when BlobContext::from makes the inlined-meta fixup and a step of it
\* fails (backend configuration, backend, ZRAN blob id, reader, blob size,
\* ToC entry list), it returns an error; it never returns Ok with a ToC
\* digest and size, or a referenced-blob digest and size, that were not read
\* again.
C21_FixupFailureFatal ==
    ( /\ FromReturned
      /\ pure.arg.blob.inlined_meta
      /\ pure.arg.chunk_source \in {"Parent", "Dict"} )
    => LET r == pure.ret[1]
       IN  /\ FixupStepFailed(pure.arg) => r.err # ""
           /\ r.err = "" =>
                 /\ r.toc_digest = "toc" /\ r.toc_size = "toc"
                 /\ pure.arg.blob.zran =>
                       r.rafs_blob_digest = "backend" /\ r.rafs_blob_size = "backend"

\* --------------------------------------------------------------------- C22
\* The step is a call of op on the writer; its record in the trace.
AwReturned(op) ==
    /\ Len(aw'.trace) = Len(aw.trace) + 1
    /\ aw'.trace[Len(aw'.trace)].op = op
AwCall == aw'.trace[Len(aw'.trace)]

\* Nothing moved the file offset back: the file is to hold the bytes accepted
\* in the order of the writes.
NoSeek(trace) == \A k \in 1..Len(trace) : trace[k].op # "seek"

\* finalize(Some(N)) returns Ok on a writer with FileDir storage.
FinalizedNamed ==
    /\ AwReturned("finalize")
    /\ AwCall.name = Some("N") /\ AwCall.err = ""
    /\ aw.storage = "FileDir"

\* What finalize(Some(N)) leaves at dir/N: the writer's file with exactly the
\* bytes written when dir/N did not exist, the file that was there when it
\* did.
NamedFileLeft ==
    /\ aw.files.N = "absent" =>
          /\ aw'.files.N = "writer"
          /\ NoSeek(aw.trace) => aw'.data = aw.accepted
    /\ aw.files.N # "absent" => aw'.files.N = aw.files.N

\* C22 as stated: finalize(Some(N)) on FileDir storage leaves dir/N (the
\* bytes written, or the file that was there), and in both cases no temp
\* file of the writer is left in the directory.
C22_NamedAndNoTemp ==
    [][ FinalizedNamed => (NamedFileLeft /\ aw'.files.tmp = "absent") ]_vars

\* C22, amended: finalize(Some(N)) on FileDir storage leaves dir/N (the
\* bytes written, or the file that was there); the temp file is gone after
\* the call when it was renamed to dir/N, and stays in the directory until
\* the writer is dropped when dir/N existed.
C22_NamedAndTempUntilDrop ==
    [][ /\ FinalizedNamed =>
              /\ NamedFileLeft
              /\ aw'.files.tmp = (IF aw.files.N = "absent" THEN "absent" ELSE aw.files.tmp)
        /\ AwReturned("drop") => aw'.files.tmp = "absent"
      ]_vars

\* The payload was written into the buffer and finalize(Some(N)) renamed the
\* temp file: dir/N is the writer's file and holds the payload.
C22_Witness ==
    /\ aw # <<>>
    /\ aw.storage = "FileDir"
    /\ Len(aw.trace) = 2
    /\ aw.trace[1] = [op |-> "write", name |-> NoneStr, err |-> ""]
    /\ aw.trace[2] = [op |-> "finalize", name |-> Some("N"), err |-> ""]
    /\ aw.files.N = "writer"
    /\ aw.files.tmp = "absent"
    /\ aw.data = Payload
    /\ aw.buf = <<>>

C24_DropRemovesTemp ==
    [][ ( AwReturned("drop") /\ aw.storage = "FileDir" )
        => /\ aw'.files.tmp = "absent"
           /\ aw'.files.N = aw.files.N
           /\ ~aw'.alive
      ]_vars

\* A finalize(Some(N)) failed in rename and left the temp file, a second one
\* renamed it, and the drop left dir/N in place and no temp file.
C24_Witness ==
    /\ aw # <<>>
    /\ aw.storage = "FileDir"
    /\ ~aw.alive
    /\ Len(aw.trace) = 3
    /\ aw.trace[1] = [op |-> "finalize", name |-> Some("N"), err |-> "rename"]
    /\ aw.trace[2] = [op |-> "finalize", name |-> Some("N"), err |-> ""]
    /\ aw.trace[3].op = "drop"
    /\ aw.files.N = "writer"
    /\ aw.files.tmp = "absent"

\* --------------------------------------------------------------------- C25
\* C25: pos is 0 at construction and is always the number of bytes that
\* write has accepted: a write that returns Ok(n) adds n, a tar header
\* written adds 512, a failed write adds nothing, and flush, finalize, seek
\* and drop leave it as it is, so it never decreases.
C25_PosCountsAccepted ==
    /\ aw.pos = 0
    /\ [][ LET call == AwCall
               n == aw'.pos - aw.pos
           IN  /\ aw'.pos = Len(aw'.accepted)
               /\ n >= 0
               /\ call.op \in {"flush", "finalize", "seek", "drop"} => n = 0
               /\ call.err # "" => n = 0
               /\ (call.op = "write" /\ call.err = "") =>
                     /\ n \in 1..Len(Payload)
                     /\ aw'.accepted = aw.accepted \o SubSeq(Payload, 1, n)
               /\ (call.op = "write_tar_header" /\ call.err = "") =>
                     /\ n = TarHeaderLen
                     /\ aw'.accepted = aw.accepted \o TarHeader
         ]_vars

\* The payload and a tar header were written and the file was sought back
\* to its start: pos is 514 while the file offset is 0.
C25_Witness ==
    /\ aw # <<>>
    /\ Len(aw.trace) = 3
    /\ aw.trace[1] = [op |-> "write", name |-> NoneStr, err |-> ""]
    /\ aw.trace[2] = [op |-> "write_tar_header", name |-> NoneStr, err |-> ""]
    /\ aw.trace[3] = [op |-> "seek", name |-> NoneStr, err |-> ""]
    /\ aw.pos = Len(Payload) + TarHeaderLen
    /\ aw.cursor = 0
    /\ Len(aw.data) = aw.pos

\* --------------------------------------------------------------------- C26
\* The step is a call of allocate_available_block; its record in the trace.
BootAllocated ==
    /\ Len(bootstrap_ctx'.trace) = Len(bootstrap_ctx.trace) + 1
    /\ bootstrap_ctx'.trace[Len(bootstrap_ctx'.trace)].op = "allocate_available_block"

\* C26: allocate_available_block(s) with s < 4096 returns 0 and leaves the
\* queues alone, or returns a position p in a block that
\* append_available_block registered, with p + s not beyond the end of the
\* block; the block is then off the front of the queue it was in and, if
\* bytes are left behind p + ceil(s/32)*32, at the back of the queue whose
\* index is that number of bytes divided by 32, and in no queue otherwise.
C26_AllocateInBlock ==
    [][ BootAllocated =>
          LET call == bootstrap_ctx'.trace[Len(bootstrap_ctx'.trace)]
              s == call.arg
              p == call.ret
              q == bootstrap_ctx.v6_available_blocks
              qn == bootstrap_ctx'.v6_available_blocks
              used == ((s + 31) \div 32) * 32
          IN  s < 4096 =>
                \/ p = 0 /\ qn = q
                \/ /\ p # 0
                   /\ \E i \in SlotIdx :
                        /\ q[i] # <<>>
                        /\ LET block == Head(q[i])
                               left == block + 4096 - (p + used)
                           IN  /\ block \in bootstrap_ctx.registered
                               /\ block <= p
                               /\ p + s <= block + 4096
                               /\ left >= 0
                               /\ left = 0 => qn = [q EXCEPT ![i] = Tail(@)]
                               /\ left > 0 =>
                                     qn = [ [q EXCEPT ![i] = Tail(@)] EXCEPT
                                              ![left \div 32] = Append(@, block) ]
      ]_vars

\* The block at 8192 was registered with 2048 bytes free; 33 bytes were
\* allocated at 10240 and then 1 byte at 10304, and the block waits in the
\* queue of 1952 free bytes.
C26_Witness ==
    /\ bootstrap_ctx # <<>>
    /\ Len(bootstrap_ctx.trace) = 3
    /\ bootstrap_ctx.trace[1] = [op |-> "append_available_block", arg |-> 10240, ret |-> 0]
    /\ bootstrap_ctx.trace[2] = [op |-> "allocate_available_block", arg |-> 33, ret |-> 10240]
    /\ bootstrap_ctx.trace[3] = [op |-> "allocate_available_block", arg |-> 1, ret |-> 10304]
    /\ bootstrap_ctx.v6_available_blocks[61] = <<8192>>
\* --------------------------------------------------------------------- C27
\* The twelve canonical conversion-type strings.
CanonicalStrings ==
    { "dir-rafs", "dir-stargz", "dir-targz", "estargz-rafs", "estargz-ref",
      "estargztoc-ref", "targz-rafs", "targz-stargz", "targz-ref", "tar-rafs",
      "tar-stargz", "tar-ref" }

\* from_str(x) has returned, with the display of its result.
FromStrReturned ==
    pure # <<>> /\ pure.fn = "ConversionType::from_str" /\ pure.ret # <<>>

\* C27: for each of the twelve canonical conversion-type strings x,
\* from_str(x) succeeds and the Display output of the result is x; the legacy
\* aliases directory and stargz_index parse to the variants displayed as
\* dir-rafs and estargztoc-ref.
C27_RoundTrip ==
    FromStrReturned =>
        LET x == pure.arg
            r == pure.ret[1]
        IN  /\ x \in CanonicalStrings => r.parsed.ok /\ r.shown = Some(x)
            /\ x = "directory" => r.parsed.ok /\ r.shown = Some("dir-rafs")
            /\ x = "stargz_index" => r.parsed.ok /\ r.shown = Some("estargztoc-ref")

\* --------------------------------------------------------------------- C28
\* read has returned.
ReadDone == reader # <<>> /\ reader.pc = "done"

\* What read returns on Ok is what the first successful try_read returned.
FirstOkReturned ==
    ReadDone /\ reader.ret[1].ok => reader.ret = reader.first_ok

ReadResultRight ==
    ReadDone =>
        IF reader.ret[1].ok
        THEN /\ reader.ret = reader.first_ok
             /\ reader.ret = reader.last
        ELSE /\ reader.first_ok = NoResult
             /\ reader.ret = reader.last
             /\ reader.retry_count = 0
             /\ reader.attempts = reader.retry_limit + 1

\* C29: read terminates for every retry_limit() and every pattern of try_read
\* outcomes: it returns Ok with the result of the first successful attempt
\* and makes no further attempt, or it returns Err with the error of the last
\* attempt once the retry budget is used up; the retry counter never goes
\* below 0.
C29_ReadTerminates ==
    /\ <>ReadDone
    /\ [](ReadResultRight /\ reader.retry_count >= 0)
    /\ [][ReadDone => reader' = reader]_vars

\* A read with the largest retry_limit() that failed on every attempt.
C29_Witness ==
    /\ ReadDone
    /\ reader.retry_limit = U8Max
    /\ reader.attempts = U8Max + 1
    /\ ~reader.ret[1].ok
    /\ reader.error_holder = <<reader.ret[1].val>>

\* --------------------------------------------------------------------- C30
\* A read by a reader whose retry_limit() is that of the default CommonConfig.
ReadByDefault ==
    reader # <<>> /\ reader.retry_limit = CommonConfigDefault.retry_limit

\* C30: the default CommonConfig has timeout 5, connect_timeout 5 and
\* retry_limit 0, so that a read is not retried by default (it makes one
\* attempt), and its default proxy configuration has check_interval 5,
\* fallback true and empty url and ping_url.
C30_CommonConfigDefault ==
    ReadByDefault =>
        /\ CommonConfigDefault.timeout = 5
        /\ CommonConfigDefault.connect_timeout = 5
        /\ CommonConfigDefault.retry_limit = 0
        /\ CommonConfigDefault.proxy.check_interval = 5
        /\ CommonConfigDefault.proxy.fallback = TRUE
        /\ CommonConfigDefault.proxy.url = ""
        /\ CommonConfigDefault.proxy.ping_url = ""
        /\ reader.attempts <= 1
        /\ (ReadDone => reader.attempts = 1 /\ reader.ret = reader.last)

\* A read by default that failed at its only attempt.
C30_Witness ==
    /\ ReadByDefault
    /\ ReadDone
    /\ ~reader.ret[1].ok
    /\ reader.attempts = 1

\* --------------------------------------------------------------------- C31
\* The ids the blob loop can give a blob of a layer with that bootstrap path:
\* its own id for a dictionary blob; for the layer's own blob the id of the
\* blob or of the path, or the hex of a digest override when it is not SEPARATE.
FinalIds(blob, path) ==
    IF blob.id \in chunk_dict_blobs THEN {blob.id}
    ELSE IF blob_digests.some /\ ~blob.separate
    THEN { HexEncode(FromHex(d).bytes) : d \in {a \in DigestArgs : FromHex(a).ok} }
    ELSE IF blob_accessible THEN {blob.id}
    ELSE {GetBlobIdFromMetaPath(path)}

\* No two blobs of the manager have the same id.
UniqueIds(bs) ==
    \A i, j \in 1..Len(bs) : bs[i].blob_id = bs[j].blob_id => i = j

\* Entry j of the map is the index of a manager blob that carries an id the
\* loop can give to the j-th blob of the layer.
MapEntryRight(j) ==
    /\ blob_idx_map[j] < Len(blobs)
    /\ blobs[blob_idx_map[j] + 1].blob_id
           \in FinalIds(rs.blobs[j], sources[layer_idx + 1])

\* C31: no two manager blobs share an id; the blob loop has pushed one map
\* entry for each blob it went through, entry j being the manager index of
\* the blob that carries the final id of the layer's j-th blob; a pass of the
\* loop either finds the id and pushes its index, or pushes the number of
\* blobs held and adds the blob at that index, keeping the blobs before it.
C31_OneEntryPerBlob ==
    /\ [](pc \in {"load", "import", "tree", "layer_end", "create", "build", "dump", "done"}
            => UniqueIds(blobs))
    /\ [](pc = "import" => Len(blob_idx_map) = blob_k)
    /\ [](pc \in {"tree", "layer_end"} =>
            /\ Len(blob_idx_map) = Len(rs.blobs)
            /\ \A j \in 1..Len(rs.blobs) : MapEntryRight(j))
    /\ [][ (pc = "import" /\ pc' # "failed") =>
             /\ Len(blob_idx_map') = Len(blob_idx_map) + 1
             /\ SubSeq(blob_idx_map', 1, Len(blob_idx_map)) = blob_idx_map
             /\ LET idx == blob_idx_map'[Len(blob_idx_map')]
                IN  \/ idx < Len(blobs) /\ blobs' = blobs
                    \/ /\ idx = Len(blobs)
                       /\ Len(blobs') = Len(blobs) + 1
                       /\ SubSeq(blobs', 1, Len(blobs)) = blobs
                       /\ blobs'[idx + 1].blob_id \notin Range(BlobIds(blobs))
      ]_vars

\* The second layer went through the blob loop: its dictionary blob was found
\* at index 0 and its own blob was added after the two blobs of the first layer.
C31_Witness ==
    /\ pc = "tree"
    /\ layer_idx = 1
    /\ blob_idx_map = <<0, 2>>
    /\ Len(blobs) = 3
    /\ rs.blobs[1].id \in chunk_dict_blobs

\* --------------------------------------------------------------------- C32
\* Every real index recorded in the dictionary designates a manager blob
\* that has the id of its dictionary blob.
RecordedIdxRight ==
    \A i \in 1..Len(real_blob_idx) :
        real_blob_idx[i].some =>
            /\ real_blob_idx[i].val < Len(blobs)
            /\ blobs[real_blob_idx[i].val + 1].blob_id = dict_blobs[i]

\* Positions in the trace of the calls of op that returned Ok.
OkCalls(op) ==
    { k \in 1..Len(mgr_trace) : mgr_trace[k] = [op |-> op, err |-> ""] }

\* Positions in the trace of the dictionary imports, whatever they returned.
DictImports ==
    { k \in 1..Len(mgr_trace) : mgr_trace[k].op = "extend_from_chunk_dict" }

\* Every parent import that went through precedes every dictionary import.
ParentsBeforeDict ==
    \A p \in OkCalls("extend_from_blob_table"), d \in DictImports : p < d

\* No blob was taken out of the manager after a dictionary import.
NoTakeAfterDict ==
    \A t \in OkCalls("take_blob"), d \in DictImports : t < d

\* A parent import made with a current blob set is not stopped by the
\* assertion; one that returns Ok leaves the recorded real indices as they
\* were, and every blob such an index designated sits |P| places higher.
LateParentImport ==
    [][ /\ (current_blob_index.some /\ Len(mgr_trace') = Len(mgr_trace) + 1
              /\ mgr_trace'[Len(mgr_trace')].op = "extend_from_blob_table")
           => mgr_trace'[Len(mgr_trace')].err # "panic"
        /\ (Returned("extend_from_blob_table", "") /\ current_blob_index.some)
           => /\ real_blob_idx' = real_blob_idx
              /\ \A i \in 1..Len(real_blob_idx) :
                    (real_blob_idx[i].some /\ real_blob_idx[i].val < Len(blobs)) =>
                       LET r == real_blob_idx[i].val
                       IN  /\ r + Len(parent_table') < Len(blobs')
                           /\ blobs'[r + Len(parent_table') + 1] = blobs[r + 1]
      ]_vars

AddChunkMetaInfoCalled ==
    /\ Len(bc_trace') = Len(bc_trace) + 1
    /\ bc_trace'[Len(bc_trace')].op = "add_chunk_meta_info"

\* Entry i of the meta array and of the digest array is that of the chunk
\* with index i, and the arrays have the same length.
EntriesAtIndex(b) ==
    /\ Len(b.blob_meta_info) = Len(b.blob_chunk_digest)
    /\ \A i \in 1..Len(b.blob_meta_info) :
          /\ b.blob_meta_info[i].index = i - 1
          /\ b.blob_chunk_digest[i] = i - 1

\* C33: with meta info enabled, add_chunk_meta_info returns Ok only for a
\* chunk whose index is the length of the meta array (the assertion stops
\* every other call, which changes nothing) and then appends one meta entry
\* and one digest, those of the chunk; so in every state entry i of both
\* arrays is that of the chunk with index i and the arrays have equal length.
C33_MetaEntriesAtIndex ==
    /\ [](bc # <<>> => EntriesAtIndex(bc))
    /\ [][ (AddChunkMetaInfoCalled /\ bc.blob_meta_info_enabled) =>
             LET call == bc_trace'[Len(bc_trace')]
                 n == Len(bc.blob_meta_info)
             IN  IF call.index = n
                 THEN /\ call.err = ""
                      /\ Len(bc'.blob_meta_info) = n + 1
                      /\ Len(bc'.blob_chunk_digest) = n + 1
                      /\ SubSeq(bc'.blob_meta_info, 1, n) = bc.blob_meta_info
                      /\ SubSeq(bc'.blob_chunk_digest, 1, n) = bc.blob_chunk_digest
                      /\ bc'.blob_meta_info[n + 1].index = call.index
                      /\ bc'.blob_chunk_digest[n + 1] = call.index
                 ELSE call.err = "panic" /\ bc' = bc
      ]_vars

\* On a context with meta info enabled the chunks 0 and 1 were added, then a
\* chunk of index 1 again, which the assertion stopped.
C33_Witness ==
    /\ bc # <<>>
    /\ bc.blob_meta_info_enabled
    /\ Len(bc_trace) = 3
    /\ \A k \in 1..3 : bc_trace[k].op = "add_chunk_meta_info"
    /\ bc_trace[1].err = "" /\ bc_trace[2].err = ""
    /\ bc_trace[3].err = "panic" /\ bc_trace[3].index = 1
    /\ Len(bc.blob_meta_info) = 2
    /\ Len(bc.blob_chunk_digest) = 2

\* --------------------------------------------------------------------- C34
\* The calls of append_available_block that registered a block (their offset
\* is not on a block boundary), by position in the trace.
Registrations ==
    { k \in 1..Len(bootstrap_ctx.trace) :
        /\ bootstrap_ctx.trace[k].op = "append_available_block"
        /\ bootstrap_ctx.trace[k].arg % EROFS_BLOCK_SIZE # 0 }

\* The block that the k-th call registered.
BlockOf(k) == round_down_4k(bootstrap_ctx.trace[k].arg)

\* The callers registered no block twice.
RegisteredOnce ==
    \A k, l \in Registrations : BlockOf(k) = BlockOf(l) => k = l

\* No block offset is in two queues or twice in one queue.
NoBlockTwice ==
    LET q == bootstrap_ctx.v6_available_blocks
        held == {i \in SlotIdx : q[i] # <<>>}
    IN  \A i, j \in held :
            \A a \in 1..Len(q[i]), b \in 1..Len(q[j]) :
                q[i][a] = q[j][b] => (i = j /\ a = b)

\* C34 as stated: after any sequence of append_available_block and
\* allocate_available_block calls no block offset is present in two queues
\* of v6_available_blocks, nor twice in the same queue.
C34_NoBlockTwiceAnySequence ==
    bootstrap_ctx # <<>> => NoBlockTwice

\* C34, amended: the same after any sequence of calls in which
\* append_available_block is handed each block at most once.
C34_NoBlockTwiceRegisteredOnce ==
    (bootstrap_ctx # <<>> /\ RegisteredOnce) => NoBlockTwice

\* Two blocks were registered, and space was taken twice from one of them,
\* which went back to a queue each time: each block is in one queue, once.
C34_Witness ==
    /\ bootstrap_ctx # <<>>
    /\ Len(bootstrap_ctx.trace) = 4
    /\ bootstrap_ctx.trace[1] = [op |-> "append_available_block", arg |-> 10240, ret |-> 0]
    /\ bootstrap_ctx.trace[2] = [op |-> "append_available_block", arg |-> 4196, ret |-> 0]
    /\ bootstrap_ctx.trace[3] = [op |-> "allocate_available_block", arg |-> 33, ret |-> 10240]
    /\ bootstrap_ctx.trace[4] = [op |-> "allocate_available_block", arg |-> 96, ret |-> 10304]
    /\ bootstrap_ctx.v6_available_blocks[59] = <<8192>>
    /\ bootstrap_ctx.v6_available_blocks[124] = <<4096>>

\* --------------------------------------------------------------------- C35
\* No queue of q with an index from min_idx up to below idx holds a block.
NoBlockIn(q, min_idx, idx) ==
    \A i \in SlotIdx : (i >= min_idx /\ i < idx) => q[i] = <<>>

\* C35: allocate_available_block(size) returns 0 exactly when size >= 4096 or
\* no queue with index in [ceil(size/32), 128) holds a block (always so for
\* the sizes 4065..4095), and then neither a queue nor the offset changes;
\* every other call returns a non-zero position, that of the oldest entry of
\* the lowest-indexed non-empty queue in that range, which it takes off.
C35_ZeroIffNoBlock ==
    [][ BootAllocated =>
          LET call == bootstrap_ctx'.trace[Len(bootstrap_ctx'.trace)]
              size == call.arg
              min_idx == (size + 31) \div 32
              q == bootstrap_ctx.v6_available_blocks
              qn == bootstrap_ctx'.v6_available_blocks
          IN  /\ call.ret = 0 <=> (size >= 4096 \/ NoBlockIn(q, min_idx, 128))
              /\ (size >= 4065 /\ size <= 4095) => call.ret = 0
              /\ call.ret = 0 =>
                    /\ qn = q
                    /\ bootstrap_ctx'.offset = bootstrap_ctx.offset
              /\ call.ret # 0 =>
                    \E idx \in SlotIdx :
                        /\ idx >= min_idx
                        /\ q[idx] # <<>>
                        /\ NoBlockIn(q, min_idx, idx)
                        /\ call.ret = Head(q[idx]) + 4096 - 32 * idx
                        /\ \/ qn[idx] = Tail(q[idx])
                           \/ qn[idx] = Append(Tail(q[idx]), Head(q[idx]))
      ]_vars

\* Blocks 24576 and 4096 were registered in queue 124, in that order; 4065
\* bytes found nothing, and 96 bytes came from the older block of the queue.
C35_Witness ==
    /\ bootstrap_ctx # <<>>
    /\ Len(bootstrap_ctx.trace) = 4
    /\ bootstrap_ctx.trace[1] = [op |-> "append_available_block", arg |-> 24676, ret |-> 0]
    /\ bootstrap_ctx.trace[2] = [op |-> "append_available_block", arg |-> 4196, ret |-> 0]
    /\ bootstrap_ctx.trace[3] = [op |-> "allocate_available_block", arg |-> 4065, ret |-> 0]
    /\ bootstrap_ctx.trace[4] = [op |-> "allocate_available_block", arg |-> 96, ret |-> 24704]
    /\ bootstrap_ctx.v6_available_blocks[124] = <<4096>>
    /\ bootstrap_ctx.v6_available_blocks[121] = <<24576>>

\* --------------------------------------------------------------------- C36
\* The step is a call of op on the bootstrap context; its record in the trace.
BootStep(op) ==
    /\ Len(bootstrap_ctx'.trace) = Len(bootstrap_ctx.trace) + 1
    /\ bootstrap_ctx'.trace[Len(bootstrap_ctx'.trace)].op = op

\* C36: offset is 4096 at creation; align_offset(k) with k > 0 leaves the
\* smallest multiple of k that is not below the offset (the offset itself
\* when it is a multiple of k, so that a second align_offset(k) changes
\* nothing); the offset never decreases and stays at 4096 or above;
\* allocate_available_block and append_available_block leave it as it is.
C36_OffsetAligned ==
    /\ (bootstrap_ctx # <<>> => bootstrap_ctx.offset = 4096)
    /\ [](bootstrap_ctx # <<>> => bootstrap_ctx.offset >= 4096)
    /\ [][ /\ bootstrap_ctx'.offset >= bootstrap_ctx.offset
           /\ BootStep("align_offset") =>
                 LET k == bootstrap_ctx'.trace[Len(bootstrap_ctx'.trace)].arg
                     old == bootstrap_ctx.offset
                     new == bootstrap_ctx'.offset
                 IN  /\ k > 0
                     /\ new % k = 0
                     /\ new >= old
                     /\ new - old < k
                     /\ old % k = 0 => new = old
                     /\ AlignOffset(new, k) = new
           /\ (BootStep("allocate_available_block") \/ BootStep("append_available_block"))
                 => bootstrap_ctx'.offset = bootstrap_ctx.offset
      ]_vars

\* align_offset(4096) left the offset of a new context at 4096,
\* align_offset(3000) moved it to 6000, and a registration and an allocation
\* left it there.
C36_Witness ==
    /\ bootstrap_ctx # <<>>
    /\ Len(bootstrap_ctx.trace) = 4
    /\ bootstrap_ctx.trace[1] = [op |-> "align_offset", arg |-> 4096, ret |-> 0]
    /\ bootstrap_ctx.trace[2] = [op |-> "align_offset", arg |-> 3000, ret |-> 0]
    /\ bootstrap_ctx.trace[3] = [op |-> "append_available_block", arg |-> 4196, ret |-> 0]
    /\ bootstrap_ctx.trace[4] = [op |-> "allocate_available_block", arg |-> 33, ret |-> 4224]
    /\ bootstrap_ctx.offset = 6000

\* --------------------------------------------------------------------- C38
\* The calls of allocate_available_block that returned a position, by
\* position in the trace.
Allocations ==
    { k \in 1..Len(bootstrap_ctx.trace) :
        /\ bootstrap_ctx.trace[k].op = "allocate_available_block"
        /\ bootstrap_ctx.trace[k].ret # 0 }

\* The bytes [p, p + s) of allocation k lie in a block that was registered
\* before it, at or behind the offset the block was registered with.
InRegisteredBlock(k) ==
    LET p == bootstrap_ctx.trace[k].ret
        s == bootstrap_ctx.trace[k].arg
    IN  \E r \in Registrations :
            /\ r < k
            /\ bootstrap_ctx.trace[r].arg <= p
            /\ p + s <= BlockOf(r) + EROFS_BLOCK_SIZE

\* The bytes of allocations k and l do not overlap.
Disjoint(k, l) ==
    LET t == bootstrap_ctx.trace
    IN  \/ t[k].ret + t[k].arg <= t[l].ret
        \/ t[l].ret + t[l].arg <= t[k].ret

\* C38: when append_available_block is handed each block at most once, the
\* byte ranges [p, p + s) of the allocations that returned a position are
\* pairwise disjoint, each lies inside one 4096-byte block, and each starts
\* at or behind the offset registered for its block.
C38_AllocationsDisjoint ==
    (bootstrap_ctx # <<>> /\ RegisteredOnce) =>
        /\ \A k \in Allocations : InRegisteredBlock(k)
        /\ \A k, l \in Allocations : k # l => Disjoint(k, l)

\* Block 4096 was registered at 4196; 96, 33 and 1 bytes were allocated from
\* it at 4224, 4320 and 4384.
C38_Witness ==
    /\ bootstrap_ctx # <<>>
    /\ RegisteredOnce
    /\ Len(bootstrap_ctx.trace) = 4
    /\ bootstrap_ctx.trace[1] = [op |-> "append_available_block", arg |-> 4196, ret |-> 0]
    /\ bootstrap_ctx.trace[2] = [op |-> "allocate_available_block", arg |-> 96, ret |-> 4224]
    /\ bootstrap_ctx.trace[3] = [op |-> "allocate_available_block", arg |-> 33, ret |-> 4320]
    /\ bootstrap_ctx.trace[4] = [op |-> "allocate_available_block", arg |-> 1, ret |-> 4384]

DictImportFailed ==
    /\ Len(mgr_trace') = Len(mgr_trace) + 1
    /\ mgr_trace'[Len(mgr_trace')].op = "extend_from_chunk_dict"
    /\ mgr_trace'[Len(mgr_trace')].err # ""

\* What the failed import leaves when it stopped at the k-th blob of the
\* dictionary: that blob is not held, every blob before it has its real
\* index recorded and is held there, the blobs after it have what was
\* recorded before the call, and the blobs added behind those held before are
\* the dictionary blobs before the k-th that were not held.
StoppedAt(k) ==
    /\ ~GetBlobIdxById(blobs', dict_blobs[k]).some
    /\ \A j \in 1..(k - 1) :
          /\ real_blob_idx'[j].some
          /\ real_blob_idx'[j].val < Len(blobs')
          /\ blobs'[real_blob_idx'[j].val + 1].blob_id = dict_blobs[j]
    /\ \A j \in k..Len(dict_blobs) : real_blob_idx'[j] = real_blob_idx[j]
    /\ \A i \in (Len(blobs) + 1)..Len(blobs') :
          /\ blobs'[i].chunk_source = "Dict"
          /\ \E j \in 1..(k - 1) :
                /\ blobs'[i].blob_id = dict_blobs[j]
                /\ real_blob_idx'[j] = Some(i - 1)

\* C39: an extend_from_chunk_dict that returns an error at the k-th blob of
\* the dictionary (the manager holds 256 blobs, or BlobContext::from fails)
\* keeps the blobs it added and the real indexes it recorded for the blobs
\* before the k-th, and leaves current_blob_index and the blobs held before
\* as they were.
C39_FailedImportKeepsPartial ==
    [][ DictImportFailed =>
          /\ mgr_trace'[Len(mgr_trace')].err \in {"too_many_blobs", "blob_from"}
          /\ (mgr_trace'[Len(mgr_trace')].err = "too_many_blobs") => (Len(blobs') >= MaxBlobs)
          /\ current_blob_index' = current_blob_index
          /\ Len(blobs') >= Len(blobs)
          /\ SubSeq(blobs', 1, Len(blobs)) = blobs
          /\ \E k \in 1..Len(dict_blobs) : StoppedAt(k)
      ]_vars

\* The import of the dictionary [B, C] failed in BlobContext::from on C: B
\* is held at index 0, which is recorded for it, and nothing is recorded
\* for C.
C39_Witness ==
    /\ dict_blobs = <<"B", "C">>
    /\ Len(mgr_trace) = 1
    /\ mgr_trace[1] = [op |-> "extend_from_chunk_dict", err |-> "blob_from"]
    /\ Len(blobs) = 1
    /\ blobs[1].blob_id = "B"
    /\ real_blob_idx = <<Some(0), None>>
    /\ current_blob_index = None

\* The same at the limit: the parent table left 257 blobs, B the last of
\* them, and the import recorded 256 for B and failed on C in alloc_index.
C39_AtLimit ==
    /\ dict_blobs = <<"B", "C">>
    /\ Len(mgr_trace) = 2
    /\ mgr_trace[2] = [op |-> "extend_from_chunk_dict", err |-> "too_many_blobs"]
    /\ Len(blobs) = MaxBlobs + 1
    /\ real_blob_idx = <<Some(MaxBlobs), None>>

\* --------------------------------------------------------------------- C37
\* C37 as stated: when two writers on one directory are finalized with the
\* same name, then whatever the interleaving of their existence checks and
\* renames, dir/name holds the bytes of the writer that renamed first from
\* that rename on, and the other finalize returns Ok without a rename of its
\* own.
C37_FirstRenameWins ==
    ( /\ finalizing.w[1].name = finalizing.w[2].name
      /\ finalizing.renames # <<>> )
    => /\ finalizing.dir[finalizing.w[1].name] = FileOf(finalizing.renames[1])
       /\ Len(finalizing.renames) = 1
       /\ \A i \in Writers :
             (i # finalizing.renames[1] /\ finalizing.w[i].pc \in {"done", "dropped"})
             => finalizing.w[i].ret \in {"Ok", "flush"}

\* Both writers found dir/N absent, writer 1 renamed and then writer 2
\* renamed: both finalize calls returned Ok and dir/N holds the bytes of
\* writer 2, the one that renamed last.
C37_LastRenameWins ==
    /\ finalizing.w[1].name = "N" /\ finalizing.w[2].name = "N"
    /\ finalizing.renames = <<1, 2>>
    /\ finalizing.w[1].ret = "Ok" /\ finalizing.w[2].ret = "Ok"
    /\ finalizing.dir.N = "w2"

====
